---- MODULE Spec2Model ----
(***************************************************************************)
(* Query-to-operation resolution and multi-step execution pipeline of the  *)
(* expense assistant (langgraph_app): planner -> route -> single-step path *)
(* (rewrite_query, retrieve_memory, execute_tool) or multi-step path       *)
(* (chain_executor), run for the successive queries of one session.        *)
(*                                                                         *)
(* Conventions.  A Python string the code inspects character by character  *)
(* (query, step description) is a tuple of one-character strings.  A       *)
(* Python Optional is a tuple of length at most one: <<>> is None,         *)
(* <<v>> is the value v.  A dict is a function on its set of keys.  A      *)
(* text (result, answer) is a tuple of strings.                            *)
(***************************************************************************)
EXTENDS Integers, Sequences, FiniteSets, TLC

\* ------------------------------------------------------------------ bounds
MaxSteps == 3
MaxQueries == 2
MaxMemory == 3
\* the largest N of "last N months" given to resolve_time_period
MaxN == 13

\* ----------------------------------------------------------------- strings
UpperCase == <<"A", "B", "C", "D", "E", "F", "G", "H", "I", "J", "K", "L", "M",
               "N", "O", "P", "Q", "R", "S", "T", "U", "V", "W", "X", "Y", "Z">>
LowerCase == <<"a", "b", "c", "d", "e", "f", "g", "h", "i", "j", "k", "l", "m",
               "n", "o", "p", "q", "r", "s", "t", "u", "v", "w", "x", "y", "z">>

\* str.lower() on one character
Lower(c) ==
  IF \E k \in 1..26 : UpperCase[k] = c
  THEN LowerCase[CHOOSE k \in 1..26 : UpperCase[k] = c]
  ELSE c

lower(s) == [i \in 1..Len(s) |-> Lower(s[i])]

\* sub in s  (Python substring test)
Contains(sub, s) ==
  \E i \in 0..(Len(s) - Len(sub)) :
     \A j \in 1..Len(sub) : s[i + j] = sub[j]

RequiredMarker == <<"r", "e", "q", "u", "i", "r", "e", "d">>

\* ------------------------------------------- difflib.SequenceMatcher.ratio
\* length of the common run of a[i..ahi] and b[j..bhi]
RECURSIVE RunLen(_, _, _, _, _, _)
RunLen(a, b, i, j, ahi, bhi) ==
  IF i > ahi \/ j > bhi \/ a[i] # b[j] THEN 0
  ELSE 1 + RunLen(a, b, i + 1, j + 1, ahi, bhi)

\* find_longest_match on a[alo..ahi], b[blo..bhi] (inclusive, 1-based):
\* the longest block; of those the earliest in a; of those the earliest in b
FindLongestMatch(a, b, alo, ahi, blo, bhi) ==
  LET cand == {<<i, j>> : i \in alo..ahi, j \in blo..bhi}
      len(p) == RunLen(a, b, p[1], p[2], ahi, bhi)
      best == CHOOSE p \in cand :
                \A q \in cand :
                   \/ len(p) > len(q)
                   \/ /\ len(p) = len(q)
                      /\ \/ p[1] < q[1]
                         \/ p[1] = q[1] /\ p[2] <= q[2]
  IN IF cand = {} THEN <<alo, blo, 0>> ELSE <<best[1], best[2], len(best)>>

\* total size of get_matching_blocks (recursion left and right of the block)
RECURSIVE MatchCount(_, _, _, _, _, _)
MatchCount(a, b, alo, ahi, blo, bhi) ==
  LET m == FindLongestMatch(a, b, alo, ahi, blo, bhi)
  IN IF m[3] = 0 THEN 0
     ELSE m[3] + MatchCount(a, b, alo, m[1] - 1, blo, m[2] - 1)
               + MatchCount(a, b, m[1] + m[3], ahi, m[2] + m[3], bhi)

\* ratio() = 2*M/T as the fraction <<num, den>>; 1.0 when both are empty
Ratio(a, b) ==
  IF Len(a) + Len(b) = 0 THEN <<1, 1>>
  ELSE <<2 * MatchCount(a, b, 1, Len(a), 1, Len(b)), Len(a) + Len(b)>>

\* variant: r >= 0.4
AboveThreshold_atLeast(r) == 10 * r[1] >= 4 * r[2]

\* r > 0.4
AboveThreshold(r) == 10 * r[1] > 4 * r[2]

\* r > s for fractions with positive denominators
FracGreater(r, s) == r[1] * s[2] > s[1] * r[2]

\* ------------------------------------------------ tools.utils: time periods
Digits == <<"0", "1", "2", "3", "4", "5", "6", "7", "8", "9">>
IsDigit(c) == \E k \in 1..10 : Digits[k] = c
DigitVal(c) == (CHOOSE k \in 1..10 : Digits[k] = c) - 1
DigitChar(n) == Digits[n + 1]

IsSpace(c) == c \in {" ", "\t", "\n"}

\* str.strip()
RECURSIVE lstrip(_)
lstrip(s) == IF Len(s) > 0 /\ IsSpace(s[1]) THEN lstrip(Tail(s)) ELSE s
RECURSIVE rstrip(_)
rstrip(s) ==
  IF Len(s) > 0 /\ IsSpace(s[Len(s)]) THEN rstrip(SubSeq(s, 1, Len(s) - 1)) ELSE s
strip(s) == rstrip(lstrip(s))

StartsWith(s, p) == Len(s) >= Len(p) /\ SubSeq(s, 1, Len(p)) = p

\* int(digits)
RECURSIVE ToInt(_)
ToInt(ds) ==
  IF ds = <<>> THEN 0
  ELSE 10 * ToInt(SubSeq(ds, 1, Len(ds) - 1)) + DigitVal(ds[Len(ds)])

\* dt.strftime("%Y-%m") for a date in year y (1000..9999), month m
ym(d) ==
  LET y == d[1]
      m == d[2]
  IN <<DigitChar(y \div 1000), DigitChar((y \div 100) % 10),
       DigitChar((y \div 10) % 10), DigitChar(y % 10), "-",
       DigitChar(m \div 10), DigitChar(m % 10)>>

\* variant: the month before January stays in the same year
PrevMonth_noYearWrap(d) == IF d[2] = 1 THEN <<d[1], 12>> ELSE <<d[1], d[2] - 1>>

\* (today.replace(day=1) - timedelta(days=1)): the month before d
PrevMonth(d) == IF d[2] = 1 THEN <<d[1] - 1, 12>> ELSE <<d[1], d[2] - 1>>

\* the loop of "last N months": the n months before d, most recent first
RECURSIVE MonthsBack(_, _)
MonthsBack(d, n) ==
  IF n = 0 THEN <<>> ELSE <<ym(PrevMonth(d))>> \o MonthsBack(PrevMonth(d), n - 1)

Reverse(s) == [i \in 1..Len(s) |-> s[Len(s) + 1 - i]]

StrThisMonth == <<"t", "h", "i", "s", " ", "m", "o", "n", "t", "h">>
StrLastMonth == <<"l", "a", "s", "t", " ", "m", "o", "n", "t", "h">>
StrLastQuarter == <<"l", "a", "s", "t", " ", "q", "u", "a", "r", "t", "e", "r">>
StrThisYear == <<"t", "h", "i", "s", " ", "y", "e", "a", "r">>
StrLast == <<"l", "a", "s", "t", " ">>
StrMonths == <<" ", "m", "o", "n", "t", "h", "s">>

\* the maximal run of digits at the start of s
RECURSIVE DigitRun(_)
DigitRun(s) ==
  IF Len(s) > 0 /\ IsDigit(s[1]) THEN <<s[1]>> \o DigitRun(Tail(s)) ELSE <<>>

\* re.match(r"last (\d+) months", value): <<n>> on a match, <<>> otherwise
MatchLastN(v) ==
  IF ~StartsWith(v, StrLast) THEN <<>>
  ELSE LET rest == SubSeq(v, 6, Len(v))
           ds == DigitRun(rest)
       IN IF ds # <<>> /\ StartsWith(SubSeq(rest, Len(ds) + 1, Len(rest)), StrMonths)
          THEN <<ToInt(ds)>> ELSE <<>>

\* a time value: a Python str s is [isList |-> FALSE, items |-> <<s>>],
\* a Python list of str is [isList |-> TRUE, items |-> the list]
TStr(s) == [isList |-> FALSE, items |-> <<s>>]
TList(l) == [isList |-> TRUE, items |-> l]

\* Python truthiness of a time value ("" and [] are falsy)
Truthy(t) == IF t.isList THEN t.items # <<>> ELSE t.items[1] # <<>>

\* re.match(r"\d{4}-\d{2}", value): value starts with dddd-dd
MatchesYearMonth(v) ==
  /\ Len(v) >= 7
  /\ \A i \in {1, 2, 3, 4, 6, 7} : IsDigit(v[i])
  /\ v[5] = "-"

\* variant: an absolute token comes back as a list of one token
resolve_time_period_asList(value, day) ==
  LET v == strip(lower(value))
      n == MatchLastN(v)
  IN CASE v = StrThisMonth -> TStr(ym(day))
       [] v = StrLastMonth -> TStr(ym(PrevMonth(day)))
       [] v \notin {StrThisMonth, StrLastMonth} /\ n # <<>> ->
            TList(Reverse(MonthsBack(day, n[1])))
       [] v = StrLastQuarter -> TList(Reverse(MonthsBack(day, 3)))
       [] v = StrThisYear ->
            TList([m \in 1..day[2] |-> ym(<<day[1], m>>)])
       [] OTHER -> IF MatchesYearMonth(v) THEN TList(<<v>>) ELSE TStr(v)

\* resolve_time_period(value) for a str value, on the day `day` = <<year, month>>
resolve_time_period(value, day) ==
  LET v == strip(lower(value))
      n == MatchLastN(v)
  IN CASE v = StrThisMonth -> TStr(ym(day))
       [] v = StrLastMonth -> TStr(ym(PrevMonth(day)))
       [] v \notin {StrThisMonth, StrLastMonth} /\ n # <<>> ->
            TList(Reverse(MonthsBack(day, n[1])))
       [] v = StrLastQuarter -> TList(Reverse(MonthsBack(day, 3)))
       [] v = StrThisYear ->
            TList([m \in 1..day[2] |-> ym(<<day[1], m>>)])
       [] OTHER -> IF MatchesYearMonth(v) THEN TStr(v) ELSE TStr(v)

\* -------------------------------------------------------- Python basics
None == <<>>
Some(v) == <<v>>

\* dict.get(k, default) on a dict whose values are Optionals: a missing key
\* gives the default, a key holding null gives None
Get(d, k, default) == IF k \in DOMAIN d THEN d[k] ELSE Some(default)

EmptyDict == [k \in {} |-> None]

\* {k: v for k, v in d.items() if k not in excluded}
Without(d, excluded) == [k \in (DOMAIN d) \ excluded |-> d[k]]

\* d[k] = v
Put(d, k, v) == [x \in (DOMAIN d) \cup {k} |-> IF x = k THEN v ELSE d[x]]

\* ------------------------------------------------------------ the inputs
Str_rent == <<"r", "e", "n", "t">>
Str_RentQ == <<"R", "e", "n", "t", "?">>
Str_go == <<"g", "o">>
Str_Required == <<"R", "e", "q", "u", "i", "r", "e", "d">>

\* the query texts a user sends (the empty text included)
Queries == {<<>>, Str_rent, Str_RentQ}

\* the ledger the operations read: well-formed, or lacking a column
Tables == {"valid", "malformed"}

\* the day a query is processed, <<year, month>>
Todays == {<<2025, 7>>}

\* steps the planning collaborator may put into a plan
StepOK ==
  [description |-> Some(Str_go), operation |-> Some("list_month_expenses"),
   arguments |-> Some([month |-> TStr(StrLastMonth), category |-> "Food"])]
StepRequired ==
  [description |-> Some(Str_Required), operation |-> Some("sum_category_expenses"),
   arguments |-> Some([category |-> "Rent"])]
StepRaises ==
  [description |-> Some(Str_go), operation |-> Some("compare_months"),
   arguments |-> Some(EmptyDict)]
StepUnknown == [operation |-> Some("bogus")]
\* steps with a null field
StepNullDescription ==
  [description |-> None, operation |-> Some("bogus"), arguments |-> Some(EmptyDict)]
StepNullArguments ==
  [description |-> Some(Str_go), operation |-> Some("list_month_expenses"),
   arguments |-> None]

StepChoices == {StepOK, StepRequired, StepRaises, StepUnknown}
AnyStepChoices == StepChoices \cup {StepNullDescription, StepNullArguments}

\* all sequences over S of length at most n
RECURSIVE SeqsUpTo(_, _)
SeqsUpTo(S, n) ==
  IF n = 0 THEN {<<>>}
  ELSE LET shorter == SeqsUpTo(S, n - 1)
       IN shorter \cup {Append(p, x) : p \in {q \in shorter : Len(q) = n - 1}, x \in S}

\* what the planning collaborator answers: a failed call, text that is not
\* JSON, JSON that is not an object, or a plan object over the given steps
PlannerFailures == {"llm_error", "json_error", "not_an_object"}
PlanObjects(choices) ==
  {[is_multi_step |-> m, steps |-> st, synthesis_instruction |-> "combine"] :
     m \in BOOLEAN, st \in SeqsUpTo(choices, MaxSteps)}
PlannerResponsesOver(choices) ==
  [ok : {FALSE}, reason : PlannerFailures]
    \cup {[ok |-> TRUE, plan |-> pl] :
            pl \in {x \in PlanObjects(choices) : x.is_multi_step \/ Len(x.steps) <= 1}}
PlannerResponses == PlannerResponsesOver(StepChoices)
AnyPlannerResponses == PlannerResponsesOver(AnyStepChoices)

\* what the intent-extraction collaborator answers on the single-step path
IntentFailures == {"llm_error", "json_error", "not_an_object"}
IntentObjects ==
  { [operation |-> "sum_category_expenses", category |-> "Rent"],
    [operation |-> "sum_category_expenses"],
    [operation |-> "list_month_expenses", category |-> "Food",
     month |-> TStr(StrLastMonth)],
    [operation |-> "compare_months"],
    [operation |-> "summarize_memory"],
    [operation |-> "bogus"],
    [category |-> "Rent"] }
IntentResponses ==
  [ok : {FALSE}, reason : IntentFailures]
    \cup {[ok |-> TRUE, parsed |-> o] : o \in IntentObjects}

\* the synthesis collaborator answers or fails
SynthesisOutcomes == {"answer", "llm_error"}

\* ------------------------------------------------------------ registries
\* A tool implementation is named by its module: "tools.x" is the pandas tool
\* of src/tools, "duckdb.x" the SQL tool of src/duckdb_tools/tools.

\* chain_executor_node.TOOL_REGISTRY: operation name -> implementation
TOOL_REGISTRY ==
  [top_n_expenses |-> "tools.top_expenses_tool",
   list_month_expenses |-> "tools.monthly_expenses_tool",
   sum_category_expenses |-> "tools.sum_category_expenses_tool",
   date_range_expense |-> "tools.date_range_expense_tool",
   summarize_memory |-> "tools.summarize_memory_tool",
   compare_months |-> "tools.compare_months_tool",
   compare_category |-> "tools.compare_category_tool",
   average_category_expense |-> "tools.average_category_expense_tool",
   category_summary |-> "tools.category_summary_tool"]

\* duckdb_tool_executor_node.DUCKDB_TOOL_REGISTRY: tool name -> implementation
DUCKDB_TOOL_REGISTRY ==
  [sum_category_expenses_tool |-> "duckdb.sum_category_expenses_tool",
   top_expenses_tool |-> "duckdb.top_expenses_tool",
   category_summary_tool |-> "duckdb.category_summary_tool",
   monthly_expenses_tool |-> "duckdb.monthly_expenses_tool",
   query_tool |-> "tools.query_tool",
   fallback_tool |-> "tools.fallback_tool",
   legacy_monthly_expenses_tool |-> "tools.monthly_expenses_tool",
   date_range_expense_tool |-> "tools.date_range_expense_tool",
   summarize_memory_tool |-> "tools.summarize_memory_tool",
   compare_months_tool |-> "tools.compare_months_tool",
   compare_category_tool |-> "tools.compare_category_tool",
   average_category_expense_tool |-> "tools.average_category_expense_tool"]

\* variant: the map routes one more operation name, to the fallback tool
OPERATION_TO_TOOL_withBogus ==
  [top_n_expenses |-> "top_expenses_tool",
   list_month_expenses |-> "monthly_expenses_tool",
   sum_category_expenses |-> "sum_category_expenses_tool",
   date_range_expense |-> "date_range_expense_tool",
   summarize_memory |-> "summarize_memory_tool",
   compare_months |-> "compare_months_tool",
   compare_category |-> "compare_category_tool",
   average_category_expense |-> "average_category_expense_tool",
   category_summary |-> "category_summary_tool",
   bogus |-> "fallback_tool"]

\* rewrite_agent_node.OPERATION_TO_TOOL: operation name -> tool name
OPERATION_TO_TOOL ==
  [top_n_expenses |-> "top_expenses_tool",
   list_month_expenses |-> "monthly_expenses_tool",
   sum_category_expenses |-> "sum_category_expenses_tool",
   date_range_expense |-> "date_range_expense_tool",
   summarize_memory |-> "summarize_memory_tool",
   compare_months |-> "compare_months_tool",
   compare_category |-> "compare_category_tool",
   average_category_expense |-> "average_category_expense_tool",
   category_summary |-> "category_summary_tool"]

\* the tool names duckdb_tool_executor_node treats as SQL tools
duckdb_tools ==
  {"sum_category_expenses_tool", "top_expenses_tool", "category_summary_tool",
   "monthly_expenses_tool"}

\* f"{operation}_tool" for the operations of TOOL_REGISTRY
OperationToolName ==
  [top_n_expenses |-> "top_n_expenses_tool",
   list_month_expenses |-> "list_month_expenses_tool",
   sum_category_expenses |-> "sum_category_expenses_tool",
   date_range_expense |-> "date_range_expense_tool",
   summarize_memory |-> "summarize_memory_tool",
   compare_months |-> "compare_months_tool",
   compare_category |-> "compare_category_tool",
   average_category_expense |-> "average_category_expense_tool",
   category_summary |-> "category_summary_tool"]

\* ----------------------------------------------------------- operations
\* The arguments a tool's signature declares without a default; invoking the
\* tool without one of them raises before the tool's body runs.
RequiredArgs(impl) ==
  CASE impl = "tools.monthly_expenses_tool" -> {"df", "month"}
    [] impl = "tools.sum_category_expenses_tool" -> {"df", "category"}
    [] impl = "tools.category_summary_tool" -> {"df", "category"}
    [] impl = "tools.top_expenses_tool" -> {"df"}
    [] impl = "tools.date_range_expense_tool" -> {"df", "start_date", "end_date"}
    [] impl = "tools.compare_months_tool" -> {"df", "month1", "month2"}
    [] impl = "tools.compare_category_tool" -> {"df", "category1", "category2"}
    [] impl = "tools.average_category_expense_tool" -> {"df", "category"}
    [] impl = "tools.query_tool" -> {"df", "operation"}
    [] impl = "tools.fallback_tool" -> {"data"}
    [] OTHER -> {}

\* the arguments a tool's signature declares as a single str
StrArgs(impl) ==
  CASE impl \in {"tools.monthly_expenses_tool", "duckdb.monthly_expenses_tool",
                 "duckdb.sum_category_expenses_tool", "duckdb.category_summary_tool",
                 "duckdb.top_expenses_tool", "tools.top_expenses_tool",
                 "tools.category_summary_tool", "tools.query_tool"} -> {"month"}
    [] impl = "tools.compare_months_tool" -> {"month1", "month2"}
    [] OTHER -> {}

\* tools whose body is wrapped in try/except and returns an error-marked text
CatchesInternally(impl) ==
  impl \notin {"tools.sum_category_expenses_tool", "tools.fallback_tool"}

\* What invoking a tool does: "raise" (the call raises), "errtext" (the tool
\* returns its error-marked failure text) or "text" (it returns its answer).
ToolOutcome(impl, args, tbl) ==
  IF \/ ~(RequiredArgs(impl) \subseteq DOMAIN args)
     \/ \E k \in StrArgs(impl) \cap DOMAIN args : args[k].isList
  THEN "raise"
  ELSE IF impl = "tools.summarize_memory_tool" THEN "text"
  ELSE IF tbl = "malformed"
       THEN (IF CatchesInternally(impl) THEN "errtext" ELSE "raise")
       ELSE "text"

ErrorMarker == "error_marker"

\* the text a tool returns
ToolText(impl, outcome) ==
  IF outcome = "errtext" THEN <<ErrorMarker, "Error", impl>> ELSE <<"answer", impl>>

\* --------------------------------------- time arguments of an operation
TimeKeys(operation) ==
  CASE operation = "list_month_expenses" -> {"month"}
    [] operation \in {"compare_category", "average_category_expense",
                      "category_summary"} -> {"months"}
    [] operation = "compare_months" -> {"month1", "month2"}
    [] OTHER -> {}

\* resolved_list: every element resolved, lists spliced in, falsy results dropped
RECURSIVE ResolveList(_, _)
ResolveList(items, day) ==
  IF items = <<>> THEN <<>>
  ELSE LET r == resolve_time_period(Head(items), day)
       IN (IF Truthy(r) THEN r.items ELSE <<>>) \o ResolveList(Tail(items), day)

\* the "for key in time_keys" loop of rewrite_agent_node / execute_single_step
NormalizeTimeArgs(operation, args, day) ==
  [k \in DOMAIN args |->
     IF k \in TimeKeys(operation) /\ Truthy(args[k])
     THEN IF args[k].isList
          THEN TList(ResolveList(args[k].items, day))
          ELSE LET r == resolve_time_period(args[k].items[1], day)
               IN IF Truthy(r) THEN r ELSE args[k]
     ELSE args[k]]

\* ----------------------------------------------------------------- state
VARIABLES
  pc,              \* the node about to run: "idle", "planner", "rewrite_query",
                   \* "retrieve_memory", "execute_tool", "chain_executor",
                   \* "chain_loop", "chain_memory", "chain_final", "END", "raised"
  query,           \* state["query"]
  table,           \* state["df"] / the DuckDB table "expenses"
  today,           \* datetime.today() as <<year, month>>
  memory,          \* state["memory"]: [kind |-> "absent" | "null" | "list", items]
  tool_input,      \* state["tool_input"]: Optional [tool_name, arguments]
  result,          \* state["result"]: Optional text
  invoked_tool,    \* state["invoked_tool"]: Optional name
  is_multi_step,   \* state["is_multi_step"]
  execution_plan,  \* state["execution_plan"]: Optional [steps, synthesis_instruction]
  step_results,    \* state["step_results"]: Optional list
  cx_results,      \* chain_executor_node's local step_results
  cx_i,            \* chain_executor_node's loop index (steps already executed)
  path,            \* the nodes the current query has run, in order
  tool_calls,      \* the tool invocations of the current query, in order,
                   \* each with the arguments passed to tool.invoke
  synth_calls,     \* the prompts given to the synthesis collaborator, in order
  memAtEntry,      \* the memory list as it was when the current query entered
  queriesDone,     \* queries of the session processed so far
  planner_resp,    \* what the planning collaborator answered for this query
  intent_resp,     \* what the intent-extraction collaborator answered for it
  t_value,         \* resolve_time_period: the argument of a direct call
  t_day,           \* resolve_time_period: datetime.today() of that call
  t_out,           \* resolve_time_period: Optional value the call returned
  t_again,         \* Optional list: resolve_time_period of each returned token
  m_input,         \* fuzzy_match_category: the user_input of a direct call
  m_cats,          \* fuzzy_match_category: the categories list of that call
  m_out,           \* fuzzy_match_category: Optional value the call returned
  cur,             \* the session whose invocation the variables above hold
  other            \* Optional: the state of the other session's invocation

vars == <<pc, query, table, today, memory, tool_input, result, invoked_tool,
          is_multi_step, execution_plan, step_results, cx_results, cx_i,
          path, tool_calls, synth_calls, memAtEntry, queriesDone, planner_resp, intent_resp,
                 t_value, t_day, t_out, t_again,
                 m_input, m_cats, m_out, cur, other>>

MemList(items) == [kind |-> "list", items |-> items]
MemNull == [kind |-> "null", items |-> <<>>]
MemAbsent == [kind |-> "absent", items |-> <<>>]

\* state.get("memory", []): None when the key holds null
MemoryGet(mem) == IF mem.kind = "null" THEN None ELSE Some(mem.items)

InitWith(memories) ==
  /\ pc = "idle"
  /\ query = <<>>
  /\ table \in Tables
  /\ today \in Todays
  /\ memory \in memories
  /\ path = <<>>
  /\ tool_input = None
  /\ result = None
  /\ invoked_tool = None
  /\ is_multi_step = FALSE
  /\ execution_plan = None
  /\ step_results = None
  /\ cx_results = <<>>
  /\ cx_i = 0
  /\ tool_calls = <<>>
  /\ synth_calls = <<>>
  /\ memAtEntry = memory.items
  /\ queriesDone = 0
  /\ planner_resp = None
  /\ intent_resp = None

\* no direct call of resolve_time_period is under way
NoTimeCall ==
  /\ t_value = <<>>
  /\ t_day \in Todays
  /\ t_out = None
  /\ t_again = None

\* no direct call of fuzzy_match_category is under way
NoMatchCall ==
  /\ m_input = <<>>
  /\ m_cats = <<>>
  /\ m_out = None

\* the host runs one session
OneSession ==
  /\ cur = 1
  /\ other = None

NoDirectCall == NoTimeCall /\ NoMatchCall /\ OneSession

\* a session whose memory is a list, or is not passed at all
Init == InitWith({MemList(<<>>), MemAbsent}) /\ NoDirectCall
\* any input state: the memory key may also hold null
InitAny == InitWith({MemList(<<>>), MemAbsent, MemNull}) /\ NoDirectCall

\* expense_analysis_app.invoke({"query": q, "df": df, "memory": memory}): the
\* caller starts the next query of the session with the memory it holds
Invoke(q) ==
  /\ pc \in {"idle", "END", "raised"}
  /\ queriesDone < MaxQueries
  /\ Len(memory.items) < MaxMemory
  /\ pc' = "planner"
  /\ path' = <<>>
  /\ query' = q
  /\ tool_input' = None
  /\ result' = None
  /\ invoked_tool' = None
  /\ is_multi_step' = FALSE
  /\ execution_plan' = None
  /\ step_results' = None
  /\ cx_results' = <<>>
  /\ cx_i' = 0
  /\ tool_calls' = <<>>
  /\ synth_calls' = <<>>
  /\ memAtEntry' = memory.items
  /\ queriesDone' = queriesDone + 1
  /\ planner_resp' = None
  /\ intent_resp' = None
  /\ UNCHANGED <<table, today, memory, t_value, t_day, t_out, t_again,
                 m_input, m_cats, m_out, cur, other>>

\* ----------------------------------------------------------- graph.py
\* variant: a missing plan ends the run
route_execution_abort(multi, plan) ==
  IF plan = None THEN "END"
  ELSE IF multi THEN "chain_executor" ELSE "rewrite_query"

\* variant: the tool executor hands the query back to the planner
graph_edge_replan(node) ==
  CASE node = "rewrite_query" -> "retrieve_memory"
    [] node = "retrieve_memory" -> "execute_tool"
    [] node = "execute_tool" -> "planner"
    [] node = "chain_executor" -> "END"

\* variant: the single-step path ends after the memory lookup
graph_edge_skipExecutor(node) ==
  CASE node = "rewrite_query" -> "retrieve_memory"
    [] node = "retrieve_memory" -> "END"
    [] node = "execute_tool" -> "END"
    [] node = "chain_executor" -> "END"

\* graph.add_edge: the node that runs after `node`
graph_edge(node) ==
  CASE node = "rewrite_query" -> "retrieve_memory"
    [] node = "retrieve_memory" -> "execute_tool"
    [] node = "execute_tool" -> "END"
    [] node = "chain_executor" -> "END"

\* variant: every plan goes to the chain executor, whatever its flag
route_execution_planOnly(multi, plan) ==
  IF plan = None THEN "rewrite_query" ELSE "chain_executor"

\* graph.route_execution: the node that runs after the planner
route_execution(multi, plan) ==
  IF plan = None THEN "rewrite_query"
  ELSE IF multi THEN "chain_executor" ELSE "rewrite_query"

\* ------------------------------------------------------ planner_node.py
\* variant: a plan of one step is only accepted when it is flagged multi-step
HasSteps_multiOnly(plan) ==
  plan.steps # <<>> /\ (plan.is_multi_step \/ Len(plan.steps) > 1)

\* "if not steps" negated: the plan has steps
HasSteps(plan) == plan.steps # <<>>

planner_node(resp) ==
  /\ pc = "planner"
  /\ path' = Append(path, "planner")
  /\ planner_resp' = IF query = <<>> THEN None ELSE Some(resp)
  /\ IF query = <<>>
     THEN /\ is_multi_step' = FALSE
          /\ execution_plan' = None
          /\ result' = Some(<<ErrorMarker, "Missing query input.">>)
     ELSE IF ~resp.ok
     THEN /\ is_multi_step' = FALSE
          /\ execution_plan' = None
          /\ result' = Some(<<ErrorMarker, "Planning failed:", resp.reason>>)
     ELSE IF ~HasSteps(resp.plan)
     THEN /\ is_multi_step' = FALSE
          /\ execution_plan' = None
          /\ result' = Some(<<ErrorMarker, "No execution steps generated.">>)
     ELSE /\ is_multi_step' = resp.plan.is_multi_step
          /\ execution_plan' =
               Some([steps |-> resp.plan.steps,
                     synthesis_instruction |-> resp.plan.synthesis_instruction])
          /\ result' = result
  /\ pc' = route_execution(is_multi_step', execution_plan')
  /\ UNCHANGED <<query, table, today, memory, tool_input, invoked_tool,
                 step_results, cx_results, cx_i, tool_calls, synth_calls,
                 memAtEntry, queriesDone, intent_resp,
                 t_value, t_day, t_out, t_again,
                 m_input, m_cats, m_out, cur, other>>

\* ------------------------------------------------ rewrite_agent_node.py
rewrite_agent_node(resp) ==
  /\ pc = "rewrite_query"
  /\ path' = Append(path, "rewrite_query")
  /\ pc' = graph_edge("rewrite_query")
  /\ intent_resp' = IF query = <<>> THEN None ELSE Some(resp)
  /\ IF query = <<>>
     THEN /\ result' = Some(<<ErrorMarker, "Missing query input.">>)
          /\ tool_input' = None
          /\ invoked_tool' = Some("None")
     ELSE IF ~resp.ok
     THEN /\ result' = Some(<<ErrorMarker, "Failed to parse tool input:", resp.reason>>)
          /\ tool_input' = None
          /\ invoked_tool' = Some("None")
     ELSE IF \/ "operation" \notin DOMAIN resp.parsed
             \/ resp.parsed.operation \notin DOMAIN OPERATION_TO_TOOL
     THEN /\ result' =
               Some(<<ErrorMarker, "Unknown or missing operation:",
                      IF "operation" \in DOMAIN resp.parsed
                      THEN resp.parsed.operation ELSE "None">>)
          /\ tool_input' = None
          /\ invoked_tool' = Some("None")
     ELSE LET operation == resp.parsed.operation
              arguments == NormalizeTimeArgs(operation,
                                             Without(resp.parsed, {"operation"}),
                                             today)
          IN /\ tool_input' = Some([tool_name |-> OPERATION_TO_TOOL[operation],
                                    arguments |-> arguments])
             /\ invoked_tool' = Some(OPERATION_TO_TOOL[operation])
             /\ result' = result
  /\ UNCHANGED <<query, table, today, memory, is_multi_step, execution_plan,
                 step_results, cx_results, cx_i, tool_calls, synth_calls,
                 memAtEntry, queriesDone, planner_resp,
                 t_value, t_day, t_out, t_again,
                 m_input, m_cats, m_out, cur, other>>

\* --------------------------------------------- retrieve_memory_node.py
\* the "for past in reversed(memory)" loop from index i down to 1:
\* best is Optional tool_args, highest the similarity it was chosen with
\* variant: an entry as similar as the best so far replaces it
RECURSIVE ScanMemory_lastWins(_, _, _, _, _)
ScanMemory_lastWins(mem, q, i, best, highest) ==
  IF i = 0 THEN best
  ELSE LET past == mem[i]
           sim == Ratio(q, lower(past.query))
       IN IF /\ AboveThreshold(sim)
             /\ past.tool_name # "summarize_memory_tool"
             /\ ~FracGreater(highest, sim)
          THEN ScanMemory_lastWins(mem, q, i - 1, Some(past.tool_args), sim)
          ELSE ScanMemory_lastWins(mem, q, i - 1, best, highest)

RECURSIVE ScanMemory(_, _, _, _, _)
ScanMemory(mem, q, i, best, highest) ==
  IF i = 0 THEN best
  ELSE LET past == mem[i]
           sim == Ratio(q, lower(past.query))
       IN IF /\ AboveThreshold(sim)
             /\ past.tool_name # "summarize_memory_tool"
             /\ FracGreater(sim, highest)
          THEN ScanMemory(mem, q, i - 1, Some(past.tool_args), sim)
          ELSE ScanMemory(mem, q, i - 1, best, highest)

\* the keys the node fills in
BackfillKeys == {"category", "month"}

\* variant: a key the best match lacks is taken from another entry above
\* the threshold
BestMatch_mergeOthers(mem, q) ==
  LET best == ScanMemory(mem, lower(q), Len(mem), None, <<0, 1>>)
      others == {i \in 1..Len(mem) :
                   /\ AboveThreshold(Ratio(lower(q), lower(mem[i].query)))
                   /\ mem[i].tool_name # "summarize_memory_tool"}
      has(k) == {i \in others : k \in DOMAIN mem[i].tool_args}
  IN IF best = None THEN None
     ELSE Some([k \in DOMAIN best[1] \cup {x \in BackfillKeys : has(x) # {}} |->
                  IF k \in DOMAIN best[1] THEN best[1][k]
                  ELSE mem[CHOOSE i \in has(k) : TRUE].tool_args[k]])

\* best_match after the loop over reversed(memory)
BestMatch(mem, q) == ScanMemory(mem, lower(q), Len(mem), None, <<0, 1>>)

\* variant: the value of the best match wins over the one supplied
FillMissing_overwrite(args, best) ==
  IF best = None \/ DOMAIN best[1] = {} THEN args
  ELSE [k \in DOMAIN args \cup (BackfillKeys \cap DOMAIN best[1]) |->
          IF k \in BackfillKeys \cap DOMAIN best[1] THEN best[1][k] ELSE args[k]]

\* variant: every key of the best match that args lacks is copied
FillMissing_allKeys(args, best) ==
  IF best = None \/ DOMAIN best[1] = {} THEN args
  ELSE [k \in DOMAIN args \cup DOMAIN best[1] |->
          IF k \in DOMAIN args THEN args[k] ELSE best[1][k]]

\* the "fill missing keys" loop: copy from best only into keys args lacks
FillMissing(args, best) ==
  IF best = None \/ DOMAIN best[1] = {} THEN args
  ELSE [k \in DOMAIN args \cup (BackfillKeys \cap DOMAIN best[1]) |->
          IF k \in DOMAIN args THEN args[k] ELSE best[1][k]]

retrieve_memory_node ==
  /\ pc = "retrieve_memory"
  /\ path' = Append(path, "retrieve_memory")
  /\ IF tool_input = None
     THEN /\ pc' = graph_edge("retrieve_memory")
          /\ tool_input' = tool_input
     ELSE IF BackfillKeys \subseteq DOMAIN tool_input[1].arguments
     THEN /\ pc' = graph_edge("retrieve_memory")
          /\ tool_input' = tool_input
     ELSE IF MemoryGet(memory) = None
     THEN /\ pc' = "raised"
          /\ tool_input' = tool_input
     ELSE /\ pc' = graph_edge("retrieve_memory")
          /\ tool_input' =
               Some([tool_input[1] EXCEPT !.arguments =
                       FillMissing(@, BestMatch(memory.items, query))])
  /\ UNCHANGED <<query, table, today, memory, result, invoked_tool,
                 is_multi_step, execution_plan, step_results, cx_results, cx_i,
                 tool_calls, synth_calls, memAtEntry, queriesDone, planner_resp, intent_resp,
                 t_value, t_day, t_out, t_again,
                 m_input, m_cats, m_out, cur, other>>

\* ---------------------------------------- duckdb_tool_executor_node.py
\* the arguments dict after the node has injected table_name / df / memory
InjectArgs(tool_name, arguments) ==
  LET a1 == IF tool_name \in duckdb_tools
            THEN Without(Put(arguments, "table_name", "expenses"), {"df"})
            ELSE IF tool_name # "summarize_memory_tool"
                 THEN Put(arguments, "df", "df")
                 ELSE arguments
  IN IF tool_name = "summarize_memory_tool"
     THEN Put(Put(a1, "memory", "memory"), "df", "df")
     ELSE a1

\* variant: new entries are put in front
memory_append_front(items, entries) == entries \o items

\* memory.append(entry) for each entry of a list, on the list's items
memory_append(items, entries) == items \o entries

\* variant: the entry stores the lower-cased query
MemoryEntry_lowerQuery(q, tool_name, arguments, text) ==
  [query |-> lower(q), tool_name |-> tool_name,
   tool_args |-> Without(arguments, {"df", "memory", "table_name"}),
   answer |-> text]

MemoryEntry(q, tool_name, arguments, text) ==
  [query |-> q, tool_name |-> tool_name,
   tool_args |-> Without(arguments, {"df", "memory", "table_name"}),
   answer |-> text]

duckdb_tool_executor_node ==
  /\ pc = "execute_tool"
  /\ path' = Append(path, "execute_tool")
  /\ pc' = graph_edge("execute_tool")
  /\ IF tool_input = None
     THEN /\ result' = Some(<<ErrorMarker, "Missing tool_input">>)
          /\ invoked_tool' = Some("None")
          /\ UNCHANGED <<tool_input, memory, tool_calls>>
     ELSE LET \* rewrite_agent_node always sets tool_name, so the node's lookup
              \* of a missing tool_name by operation never applies
              tool_name == tool_input[1].tool_name
              arguments == InjectArgs(tool_name, tool_input[1].arguments)
          IN /\ tool_input' = Some([tool_input[1] EXCEPT !.arguments = arguments])
             /\ invoked_tool' = Some(tool_name)
             /\ IF tool_name \notin DOMAIN DUCKDB_TOOL_REGISTRY
                THEN /\ result' = Some(<<ErrorMarker, "Unknown or missing tool:", tool_name>>)
                     /\ UNCHANGED <<memory, tool_calls>>
                ELSE LET impl == DUCKDB_TOOL_REGISTRY[tool_name]
                         outcome == ToolOutcome(impl, arguments, table)
                         text == ToolText(impl, outcome)
                     IN /\ tool_calls' = Append(tool_calls,
                                                [tool |-> tool_name, outcome |-> outcome,
                                                 args |-> arguments])
                        /\ IF outcome = "raise"
                           THEN /\ result' = Some(<<ErrorMarker, "Tool execution failed:",
                                                    "tool raised">>)
                                /\ memory' = memory
                           ELSE IF MemoryGet(memory) = None
                           THEN /\ result' = Some(<<ErrorMarker, "Tool execution failed:",
                                                    "NoneType has no append">>)
                                /\ memory' = memory
                           ELSE /\ result' = Some(text)
                                /\ memory' = MemList(memory_append(memory.items,
                                        <<MemoryEntry(query, tool_name, arguments, text)>>))
  /\ UNCHANGED <<query, table, today, is_multi_step, execution_plan,
                 step_results, cx_results, cx_i, synth_calls, memAtEntry,
                 queriesDone, planner_resp, intent_resp,
                 t_value, t_day, t_out, t_again,
                 m_input, m_cats, m_out, cur, other>>

\* ------------------------------------------------ chain_executor_node.py
\* tool_args as execute_single_step prepares them, before time resolution
StepToolArgs(operation, arguments) ==
  IF operation # "summarize_memory"
  THEN Put(arguments, "df", "df")
  ELSE Put(arguments, "memory", "memory")

\* the outcome of the tool invocation of a step whose operation is in
\* TOOL_REGISTRY and whose arguments are a dict
StepOutcome(operation, arguments, tbl, day) ==
  ToolOutcome(TOOL_REGISTRY[operation],
              NormalizeTimeArgs(operation, StepToolArgs(operation, arguments), day),
              tbl)

execute_single_step(step, tbl, day) ==
  LET operation == Get(step, "operation", "None")
      arguments == Get(step, "arguments", EmptyDict)
      description == Get(step, "description", <<>>)
  IN IF operation = None \/ operation[1] \notin DOMAIN TOOL_REGISTRY
     THEN [success |-> FALSE,
           result |-> <<ErrorMarker, "Unknown operation:",
                        IF operation = None THEN "None" ELSE operation[1]>>,
           step_description |-> description]
     ELSE IF arguments = None
     THEN [success |-> FALSE,
           result |-> <<ErrorMarker, "Step execution failed:", "NoneType has no copy">>,
           step_description |-> description]
     ELSE LET outcome == StepOutcome(operation[1], arguments[1], tbl, day)
          IN IF outcome = "raise"
             THEN [success |-> FALSE,
                   result |-> <<ErrorMarker, "Step execution failed:", "tool raised">>,
                   step_description |-> description]
             ELSE [success |-> TRUE,
                   result |-> ToolText(TOOL_REGISTRY[operation[1]], outcome),
                   step_description |-> description,
                   operation |-> operation[1],
                   arguments |-> arguments[1]]

\* whether execute_single_step reaches tool.invoke for the step
StepInvokesTool(step) ==
  /\ Get(step, "operation", "None") # None
  /\ Get(step, "operation", "None")[1] \in DOMAIN TOOL_REGISTRY
  /\ Get(step, "arguments", EmptyDict) # None

\* str(x) of an Optional text inside an f-string
Fmt(opt) == IF opt = None THEN <<"None">> ELSE opt[1]

\* variant: only the successful step results are presented
ResultBlocks_successOnly(results) ==
  LET ok == SelectSeq(results, LAMBDA r : r.success)
  IN [i \in 1..Len(ok) |->
        [position |-> i, failed |-> FALSE,
         description |-> Fmt(ok[i].step_description), text |-> ok[i].result]]

\* the labelled blocks synthesize_results builds, one per step result
ResultBlocks(results) ==
  [i \in 1..Len(results) |->
     [position |-> i,
      failed |-> ~results[i].success,
      description |-> Fmt(results[i].step_description),
      text |-> results[i].result]]

\* results_text: the blocks written out
RECURSIVE ResultsText(_)
ResultsText(blocks) ==
  IF blocks = <<>> THEN <<>>
  ELSE LET b == Head(blocks)
       IN <<"Step", DigitChar(b.position)>>
            \o (IF b.failed THEN <<"FAILED">> ELSE <<>>)
            \o b.description \o b.text \o ResultsText(Tail(blocks))

\* variant: the fallback returns the failure notice alone
synthesize_results_noticeOnly(q, results, instruction, outcome) ==
  IF outcome = "answer" THEN <<"synthesis">>
  ELSE <<ErrorMarker, "Failed to synthesize results:", outcome, "Raw results:">>

synthesize_results(q, results, instruction, outcome) ==
  IF outcome = "answer" THEN <<"synthesis">>
  ELSE <<ErrorMarker, "Failed to synthesize results:", outcome, "Raw results:">>
         \o ResultsText(ResultBlocks(results))

\* the entries the memory-update loop appends for the successful steps
RECURSIVE StepEntriesLoop(_, _)
StepEntriesLoop(q, results) ==
  IF results = <<>> THEN <<>>
  ELSE LET r == Head(results)
       IN (IF r.success
           THEN <<[query |-> q \o <<" ", "(", "S", "t", "e", "p", ":", " ">>
                                \o Fmt(r.step_description) \o <<")">>,
                   tool_name |-> OperationToolName[r.operation],
                   tool_args |-> Without(r.arguments, {"df", "memory"}),
                   answer |-> r.result]>>
           ELSE <<>>) \o StepEntriesLoop(q, Tail(results))

\* variant: the loop stops after the first entry it appends
StepEntries_firstOnly(q, results) ==
  LET all == StepEntriesLoop(q, results)
  IN IF all = <<>> THEN <<>> ELSE <<all[1]>>

\* variant: a plan halted by a failed step skips the memory update
StepEntries_noneOnHalt(q, results) ==
  IF results # <<>> /\ ~results[Len(results)].success
  THEN <<>>
  ELSE StepEntriesLoop(q, results)

StepEntries(q, results) == StepEntriesLoop(q, results)

AnySuccess(results) == \E i \in 1..Len(results) : results[i].success

\* variant: any failing step stops the loop
ShouldBreak_anyFailure(step_result, description) == ~step_result.success

\* variant: a step naming an unknown operation stops the loop as well
ShouldBreak_unknownHalts(step_result, description) ==
  /\ ~step_result.success
  /\ \/ Contains(RequiredMarker, lower(description))
     \/ step_result.result[2] = "Unknown operation:"

\* "stop if a critical step fails": the loop's break condition, for a step
\* result and a description that is a str
ShouldBreak(step_result, description) ==
  ~step_result.success /\ Contains(RequiredMarker, lower(description))

\* "synthesize results if multiple steps"
NeedsSynthesis(steps) == Len(steps) > 1

\* chain_executor_node, entry: the checks before the loop
chain_executor_enter ==
  /\ pc = "chain_executor"
  /\ path' = Append(path, "chain_executor")
  /\ IF execution_plan = None
     THEN /\ result' = Some(<<ErrorMarker, "No execution plan available.">>)
          /\ pc' = graph_edge("chain_executor")
     ELSE IF execution_plan[1].steps = <<>>
     THEN /\ result' = Some(<<ErrorMarker, "No steps to execute.">>)
          /\ pc' = graph_edge("chain_executor")
     ELSE /\ result' = result
          /\ pc' = "chain_loop"
  /\ cx_results' = <<>>
  /\ cx_i' = 0
  /\ UNCHANGED <<query, table, today, memory, tool_input, invoked_tool,
                 is_multi_step, execution_plan, step_results, tool_calls,
                 synth_calls, memAtEntry, queriesDone, planner_resp, intent_resp,
                 t_value, t_day, t_out, t_again,
                 m_input, m_cats, m_out, cur, other>>

\* one iteration of "for i, step in enumerate(steps)"
chain_executor_step ==
  /\ pc = "chain_loop"
  /\ LET steps == execution_plan[1].steps
         step == steps[cx_i + 1]
         step_result == execute_single_step(step, table, today)
         description == Get(step, "description", <<>>)
     IN /\ cx_results' = Append(cx_results, step_result)
        /\ cx_i' = cx_i + 1
        /\ tool_calls' =
             IF StepInvokesTool(step)
             THEN Append(tool_calls,
                         [tool |-> step.operation[1],
                          outcome |-> StepOutcome(step.operation[1],
                                                  step.arguments[1], table, today),
                          args |-> NormalizeTimeArgs(step.operation[1],
                                     StepToolArgs(step.operation[1], step.arguments[1]),
                                     today)])
             ELSE tool_calls
        /\ pc' = IF ~step_result.success /\ description = None
                 THEN "raised"
                 ELSE IF \/ ShouldBreak(step_result, description[1])
                         \/ cx_i + 1 = Len(steps)
                 THEN "chain_memory"
                 ELSE "chain_loop"
  /\ UNCHANGED <<path, query, table, today, memory, tool_input, result, invoked_tool,
                 is_multi_step, execution_plan, step_results, synth_calls,
                 memAtEntry, queriesDone, planner_resp, intent_resp,
                 t_value, t_day, t_out, t_again,
                 m_input, m_cats, m_out, cur, other>>

\* "update memory with all successful steps"
chain_executor_memory ==
  /\ pc = "chain_memory"
  /\ IF MemoryGet(memory) = None
     THEN /\ memory' = memory
          /\ pc' = IF AnySuccess(cx_results) THEN "raised" ELSE "chain_final"
     ELSE /\ memory' = MemList(memory_append(memory.items,
                                           StepEntries(query, cx_results)))
          /\ pc' = "chain_final"
  /\ UNCHANGED <<path, query, table, today, tool_input, result, invoked_tool,
                 is_multi_step, execution_plan, step_results, cx_results, cx_i,
                 tool_calls, synth_calls, memAtEntry, queriesDone, planner_resp, intent_resp,
                 t_value, t_day, t_out, t_again,
                 m_input, m_cats, m_out, cur, other>>

\* synthesis or direct result, and the return of the node
chain_executor_finish(outcome) ==
  /\ pc = "chain_final"
  /\ pc' = graph_edge("chain_executor")
  /\ LET steps == execution_plan[1].steps
         instruction == execution_plan[1].synthesis_instruction
     IN IF NeedsSynthesis(steps)
        THEN /\ synth_calls' =
                  Append(synth_calls,
                         [query |-> query, blocks |-> ResultBlocks(cx_results),
                          instruction |-> instruction, outcome |-> outcome])
             /\ result' = Some(synthesize_results(query, cx_results, instruction, outcome))
        ELSE /\ synth_calls' = synth_calls
             /\ result' =
                  IF cx_results # <<>> /\ cx_results[1].success
                  THEN Some(cx_results[1].result)
                  ELSE Some(<<ErrorMarker, "Step execution failed.">>)
  /\ step_results' = Some(cx_results)
  /\ UNCHANGED <<path, query, table, today, memory, tool_input, invoked_tool,
                 is_multi_step, execution_plan, cx_results, cx_i, tool_calls,
                 memAtEntry, queriesDone, planner_resp, intent_resp,
                 t_value, t_day, t_out, t_again,
                 m_input, m_cats, m_out, cur, other>>

\* ------------------------------------------------------- specification
\* the nodes after the planner, which behave alike for every input
AfterPlanner ==
  \/ \E resp \in IntentResponses : rewrite_agent_node(resp)
  \/ retrieve_memory_node
  \/ duckdb_tool_executor_node
  \/ chain_executor_enter
  \/ chain_executor_step
  \/ chain_executor_memory
  \/ \E outcome \in SynthesisOutcomes : chain_executor_finish(outcome)

\* A session on inputs of the data model: the memory is a list (or not passed)
\* and every plan step's description and arguments are absent or well-typed.
Next ==
  \/ \E q \in Queries : Invoke(q)
  \/ \E resp \in PlannerResponses : planner_node(resp)
  \/ AfterPlanner

Spec == Init /\ [][Next]_vars

\* One query from its invocation to END.  The plans are those over a step
\* that succeeds and a required step that fails on a malformed table.
LivePlannerResponses == PlannerResponsesOver({StepOK, StepRequired})

\* the nodes of the graph: every collaborator call returns or fails, so a
\* node that has started finishes and the graph runs the next one
RunNode ==
  \/ \E resp \in LivePlannerResponses : planner_node(resp)
  \/ AfterPlanner

NextLive ==
  \/ \E q \in {<<>>, Str_rent} : queriesDone = 0 /\ Invoke(q)
  \/ RunNode

InitLive == InitWith({MemList(<<>>)}) /\ NoDirectCall

SpecLive == InitLive /\ [][NextLive]_vars /\ WF_vars(RunNode)

\* A session on any input state: the memory may be null and a plan step may
\* carry null fields.
NextAny ==
  \/ \E q \in Queries : Invoke(q)
  \/ \E resp \in AnyPlannerResponses : planner_node(resp)
  \/ AfterPlanner

SpecAny == InitAny /\ [][NextAny]_vars

\* ------------------------------------- direct calls of resolve_time_period
\* str(n) for 0 <= n <= 99
IntStr(n) ==
  IF n < 10 THEN <<DigitChar(n)>> ELSE <<DigitChar(n \div 10), DigitChar(n % 10)>>

\* the text "last N months"
LastNMonths(n) == StrLast \o IntStr(n) \o StrMonths

Str_2025_06 == <<"2", "0", "2", "5", "-", "0", "6">>
Str_June == <<"J", "u", "n", "e">>
Str_q2 == <<"q", "2">>

\* the values a caller passes: the recognised phrases in several spellings,
\* absolute tokens, and texts of no recognised form
TimeValues ==
  {LastNMonths(n) : n \in 0..MaxN}
    \cup {StrThisMonth, StrLastMonth, StrLastQuarter, StrThisYear,
          <<"L", "a", "s", "t", " ", "M", "o", "n", "t", "h", " ">>,
          Str_2025_06, <<" ">> \o Str_2025_06, Str_June, Str_q2, <<>>}

\* the days a call may happen on, <<year, month>>
TimeDays == {<<y, m>> : y \in 2024..2025, m \in 1..12}

InitTime ==
  /\ InitWith({MemAbsent})
  /\ t_value \in TimeValues
  /\ t_day \in TimeDays
  /\ t_out = None
  /\ t_again = None
  /\ NoMatchCall
  /\ OneSession

\* resolved = resolve_time_period(value)
Resolve ==
  /\ t_out = None
  /\ t_out' = Some(resolve_time_period(t_value, t_day))
  /\ UNCHANGED <<pc, query, table, today, memory, tool_input, result,
                 invoked_tool, is_multi_step, execution_plan, step_results,
                 cx_results, cx_i, path, tool_calls, synth_calls, memAtEntry,
                 queriesDone, planner_resp, intent_resp, t_value, t_day, t_again,
                 m_input, m_cats, m_out, cur, other>>

\* resolve_time_period applied to every token the first call returned
ResolveAgain ==
  /\ t_out # None
  /\ t_again = None
  /\ t_again' = Some([i \in 1..Len(t_out[1].items) |->
                        resolve_time_period(t_out[1].items[i], t_day)])
  /\ UNCHANGED <<pc, query, table, today, memory, tool_input, result,
                 invoked_tool, is_multi_step, execution_plan, step_results,
                 cx_results, cx_i, path, tool_calls, synth_calls, memAtEntry,
                 queriesDone, planner_resp, intent_resp, t_value, t_day, t_out,
                 m_input, m_cats, m_out, cur, other>>

NextTime ==
  \/ Resolve
  \/ ResolveAgain

SpecTime == InitTime /\ [][NextTime]_vars

\* ------------------------------------ direct calls of fuzzy_match_category
\* the characters of the texts below in code-point order
CodePoints ==
  <<" ", "?", "A", "B", "C", "D", "E", "F", "G", "H", "I", "J", "K", "L", "M",
    "N", "O", "P", "Q", "R", "S", "T", "U", "V", "W", "X", "Y", "Z",
    "a", "b", "c", "d", "e", "f", "g", "h", "i", "j", "k", "l", "m",
    "n", "o", "p", "q", "r", "s", "t", "u", "v", "w", "x", "y", "z">>
Ord(c) == CHOOSE k \in 1..Len(CodePoints) : CodePoints[k] = c

\* a < b for two Python str
RECURSIVE StrLess(_, _)
StrLess(a, b) ==
  IF b = <<>> THEN FALSE
  ELSE IF a = <<>> THEN TRUE
  ELSE IF a[1] = b[1] THEN StrLess(Tail(a), Tail(b))
  ELSE Ord(a[1]) < Ord(b[1])

\* the keys of {c.lower(): c for c in categories}, in insertion order: a key
\* keeps the place of its first occurrence
RECURSIVE LowerKeys(_)
LowerKeys(categories) ==
  IF categories = <<>> THEN <<>>
  ELSE LET front == LowerKeys(SubSeq(categories, 1, Len(categories) - 1))
           k == lower(categories[Len(categories)])
       IN IF \E i \in 1..Len(front) : front[i] = k THEN front ELSE Append(front, k)

\* categories_lower[key]: a later category of the same lower-cased name
\* overwrites the value
LowerValue(categories, key) ==
  LET hits == {i \in 1..Len(categories) : lower(categories[i]) = key}
  IN categories[CHOOSE i \in hits : \A j \in hits : j <= i]

\* s.ratio() >= cutoff with cutoff = 0.6 (real_quick_ratio and quick_ratio are
\* upper bounds of ratio, so the three tests together are this one)
AtLeastCutoff(r) == 10 * r[1] >= 6 * r[2]

\* (score, x) < (score2, y) for the tuples get_close_matches collects
ScoredLess(p, q) ==
  \/ FracGreater(q[1], p[1])
  \/ /\ ~FracGreater(p[1], q[1])
     /\ StrLess(p[2], q[2])

\* difflib.get_close_matches(word, possibilities, n=1, cutoff=0.6): seq2 is
\* the word, seq1 each possibility; the result is max() of the (score, x)
\* tuples that reach the cutoff
get_close_matches(word, possibilities) ==
  LET scored == {<<Ratio(possibilities[i], word), possibilities[i]>> :
                   i \in {j \in 1..Len(possibilities) :
                            AtLeastCutoff(Ratio(possibilities[j], word))}}
  IN IF scored = {} THEN <<>>
     ELSE <<(CHOOSE p \in scored : \A q \in scored : q = p \/ ScoredLess(q, p))[2]>>

fuzzy_match_category(user_input, categories) ==
  LET word == strip(lower(user_input))
      matches == get_close_matches(word, LowerKeys(categories))
  IN IF matches # <<>> THEN Some(LowerValue(categories, matches[1])) ELSE None

Str_Groceries == <<"G", "r", "o", "c", "e", "r", "i", "e", "s">>
Str_Rent == <<"R", "e", "n", "t">>
Str_RENT == <<"R", "E", "N", "T">>
Str_Tent == <<"T", "e", "n", "t">>
Str_Shopping == <<"S", "h", "o", "p", "p", "i", "n", "g">>
Str_grocery == <<"g", "r", "o", "c", "e", "r", "y">>
Str_bent == <<"b", "e", "n", "t">>

\* the longest categories list given to fuzzy_match_category
MaxCats == 3

\* data["Category"].unique().tolist(): category names without repetition
CategoryNames == {Str_Groceries, Str_Rent, Str_RENT, Str_Tent, Str_Shopping}
CategoryLists ==
  {l \in SeqsUpTo(CategoryNames, MaxCats) :
     \A i, j \in 1..Len(l) : i # j => l[i] # l[j]}

\* the category texts a caller passes
MatchInputs ==
  {Str_grocery, Str_rent, <<" ">> \o Str_Rent \o <<" ">>, Str_bent,
   <<"x", "y", "z">>, <<>>}

InitMatch ==
  /\ InitWith({MemAbsent})
  /\ NoTimeCall
  /\ OneSession
  /\ m_input \in MatchInputs
  /\ m_cats \in CategoryLists
  /\ m_out = None

\* matched = fuzzy_match_category(category, categories)
Match ==
  /\ m_out = None
  /\ m_out' = Some(fuzzy_match_category(m_input, m_cats))
  /\ UNCHANGED <<pc, query, table, today, memory, tool_input, result,
                 invoked_tool, is_multi_step, execution_plan, step_results,
                 cx_results, cx_i, path, tool_calls, synth_calls, memAtEntry,
                 queriesDone, planner_resp, intent_resp, t_value, t_day, t_out,
                 t_again, m_input, m_cats, cur, other>>

NextMatch == Match

SpecMatch == InitMatch /\ [][NextMatch]_vars

\* ------------------------------------------- two sessions run concurrently
\* The host application calls expense_analysis_app.invoke from two sessions;
\* every invocation works on its own state dict, so the variables hold the
\* state of the invocation that is running and `other` the state of the
\* suspended one.  The ledger and the clock are the host's, and shared.

\* the state dict (and the locals) of the running invocation
Suspended ==
  [pc |-> pc, query |-> query, memory |-> memory, tool_input |-> tool_input,
   result |-> result, invoked_tool |-> invoked_tool,
   is_multi_step |-> is_multi_step, execution_plan |-> execution_plan,
   step_results |-> step_results, cx_results |-> cx_results, cx_i |-> cx_i,
   path |-> path, tool_calls |-> tool_calls, synth_calls |-> synth_calls,
   memAtEntry |-> memAtEntry, queriesDone |-> queriesDone,
   planner_resp |-> planner_resp, intent_resp |-> intent_resp]

\* variant: the memory is one module-level list that every session uses
Resumed_sharedMemory(saved) == [saved EXCEPT !.memory = memory]

\* the state a suspended invocation continues with: its own state dict
Resumed(saved) == saved

\* the scheduler switches from the running invocation to the suspended one
Switch ==
  /\ other # None
  /\ LET r == Resumed(other[1])
     IN /\ pc' = r.pc
        /\ query' = r.query
        /\ memory' = r.memory
        /\ tool_input' = r.tool_input
        /\ result' = r.result
        /\ invoked_tool' = r.invoked_tool
        /\ is_multi_step' = r.is_multi_step
        /\ execution_plan' = r.execution_plan
        /\ step_results' = r.step_results
        /\ cx_results' = r.cx_results
        /\ cx_i' = r.cx_i
        /\ path' = r.path
        /\ tool_calls' = r.tool_calls
        /\ synth_calls' = r.synth_calls
        /\ memAtEntry' = r.memAtEntry
        /\ queriesDone' = r.queriesDone
        /\ planner_resp' = r.planner_resp
        /\ intent_resp' = r.intent_resp
  /\ other' = Some(Suspended)
  /\ cur' = 3 - cur
  /\ UNCHANGED <<table, today, t_value, t_day, t_out, t_again,
                 m_input, m_cats, m_out>>

\* what each session asks, and the step its planning collaborator plans
SessionQuery(s) == IF s = 1 THEN Str_rent ELSE Str_RentQ
SessionStep(s) == IF s = 1 THEN StepOK ELSE StepRequired

InitTwo ==
  /\ InitWith({MemList(<<>>)})
  /\ NoTimeCall
  /\ NoMatchCall
  /\ cur = 1
  /\ other = Some(Suspended)

\* one query per session; each node of either invocation is a step
NextTwo ==
  \/ queriesDone = 0 /\ Invoke(SessionQuery(cur))
  \/ \E resp \in PlannerResponsesOver({SessionStep(cur)}) : planner_node(resp)
  \/ \E resp \in IntentResponses : rewrite_agent_node(resp)
  \/ retrieve_memory_node
  \/ duckdb_tool_executor_node
  \/ chain_executor_enter
  \/ chain_executor_step
  \/ chain_executor_memory
  \/ \E outcome \in SynthesisOutcomes : chain_executor_finish(outcome)
  \/ Switch

SpecTwo == InitTwo /\ [][NextTwo]_vars

\* ------------------------------------- a query of a session with a history
\* entries earlier queries of the session have recorded: two answers to the
\* same query with different categories, an answer with a month and a count, a
\* memory summary, and a step of a multi-step plan
PastEntries ==
  {MemoryEntry(Str_rent, "sum_category_expenses_tool", [category |-> "Rent"],
               ToolText("duckdb.sum_category_expenses_tool", "text")),
   MemoryEntry(Str_rent, "sum_category_expenses_tool", [category |-> "Food"],
               ToolText("duckdb.sum_category_expenses_tool", "text")),
   MemoryEntry(Str_RentQ, "top_expenses_tool", [month |-> TStr(Str_2025_06), n |-> "3"],
               ToolText("duckdb.top_expenses_tool", "text")),
   MemoryEntry(Str_rent, "summarize_memory_tool", EmptyDict,
               ToolText("tools.summarize_memory_tool", "text")),
   StepEntries(Str_rent, <<execute_single_step(StepOK, "valid", <<2025, 7>>)>>)[1]}

\* the memory the host passes with the next query
PastMemories ==
  {MemList(l) : l \in SeqsUpTo(PastEntries, MaxMemory - 1)} \cup {MemAbsent, MemNull}

\* the planner fails, or plans the single step
BackfillPlannerResponses ==
  {r \in PlannerResponsesOver({StepRequired}) :
     IF r.ok THEN (~r.plan.is_multi_step /\ Len(r.plan.steps) = 1)
     ELSE r.reason = "llm_error"}

\* the intents of the data model and one that names a month but no category
BackfillIntentResponses ==
  IntentResponses
    \cup {[ok |-> TRUE,
           parsed |-> [operation |-> "list_month_expenses",
                       month |-> TStr(Str_2025_06)]]}

InitBackfill == InitWith(PastMemories) /\ NoDirectCall

NextBackfill ==
  \/ \E q \in Queries \ {<<>>} : queriesDone = 0 /\ Invoke(q)
  \/ \E resp \in BackfillPlannerResponses : planner_node(resp)
  \/ \E resp \in BackfillIntentResponses : rewrite_agent_node(resp)
  \/ retrieve_memory_node
  \/ duckdb_tool_executor_node

SpecBackfill == InitBackfill /\ [][NextBackfill]_vars

\* ---------------------------------------- plans whose steps name periods
\* steps with time-valued arguments: a relative month for the top expenses
\* and for the month listing, two relative months to compare, and a list of
\* a quarter and a month for an average
StepTopMonth ==
  [description |-> Some(Str_go), operation |-> Some("top_n_expenses"),
   arguments |-> Some([month |-> TStr(StrLastMonth)])]
StepCompareMonths ==
  [description |-> Some(Str_go), operation |-> Some("compare_months"),
   arguments |-> Some([month1 |-> TStr(StrThisMonth), month2 |-> TStr(StrLastMonth)])]
StepAverageMonths ==
  [description |-> Some(Str_go), operation |-> Some("average_category_expense"),
   arguments |-> Some([category |-> "Rent",
                       months |-> TList(<<StrLastQuarter, Str_2025_06>>)])]

TimeStepChoices == {StepOK, StepTopMonth, StepCompareMonths, StepAverageMonths}

NextStep ==
  \/ queriesDone = 0 /\ Invoke(Str_rent)
  \/ \E resp \in PlannerResponsesOver(TimeStepChoices) : planner_node(resp)
  \/ AfterPlanner

SpecStep == InitLive /\ [][NextStep]_vars

\* ------------------------------------------------------------ properties
IsPrefix(s, t) == Len(s) <= Len(t) /\ SubSeq(t, 1, Len(s)) = s

Min(S) == CHOOSE x \in S : \A y \in S : x <= y

SinglePath == <<"planner", "rewrite_query", "retrieve_memory", "execute_tool">>
MultiPath == <<"planner", "chain_executor">>

IsSuccess(r) == r.success

\* the plan of the query being processed
PlanSteps == execution_plan[1].steps

\* C1: whenever the planner yields a plan-failure (no execution plan), the
\* query runs rewrite_query, retrieve_memory, execute_tool in that order,
\* never the chain executor, never raises, and ends with a result text.
C1_PlanFailureFallsBack ==
  (Len(path) >= 1 /\ execution_plan = None) =>
     /\ pc # "raised"
     /\ IsPrefix(path, SinglePath)
     /\ pc \in {"rewrite_query", "retrieve_memory", "execute_tool", "END"}
     /\ pc = "END" => (path = SinglePath /\ result # None /\ result[1] # <<>>)

\* a planning failure on a non-empty query that still ends with a tool's answer
C1_Witness ==
  /\ pc = "END"
  /\ query # <<>>
  /\ execution_plan = None
  /\ path = SinglePath
  /\ result # None
  /\ result[1][1] = "answer"

\* C2: on the multi-step path the step results are exactly the results of
\* steps 1..k in plan order, k being the first step that fails and carries
\* the "required" marker, or the plan length when there is none.
C2_StepResultsUpToRequiredFailure ==
  (pc \in {"chain_loop", "chain_memory", "chain_final"}
     \/ (pc = "END" /\ path = MultiPath)) =>
    LET n == Len(PlanSteps)
        Expected(i) == execute_single_step(PlanSteps[i], table, today)
        Marked(i) ==
          Contains(RequiredMarker, lower(Get(PlanSteps[i], "description", <<>>)[1]))
        halts == {i \in 1..n : ~Expected(i).success /\ Marked(i)}
        k == IF halts = {} THEN n ELSE Min(halts)
    IN /\ cx_results = [i \in 1..cx_i |-> Expected(i)]
       /\ cx_i <= k
       /\ pc = "chain_loop" => cx_i < k
       /\ pc # "chain_loop" => cx_i = k
       /\ pc = "END" => step_results = Some(cx_results)

\* a 3-step plan whose step 2 is required and fails: exactly 2 step results
C2_Witness ==
  /\ pc = "END"
  /\ path = MultiPath
  /\ Len(PlanSteps) = 3
  /\ Len(step_results[1]) = 2
  /\ step_results[1][1].success
  /\ ~step_results[1][2].success
  /\ Contains(RequiredMarker, lower(PlanSteps[2].description[1]))

\* C3: for every input state and collaborator outcome the orchestrator
\* never raises, and ends with a result text and the memory accumulated.
C3_NeverRaises ==
  /\ pc # "raised"
  /\ pc = "END" => (result # None /\ IsPrefix(memAtEntry, memory.items))

\* C4: memory backfill never changes an argument the intent already carries;
\* it only adds category / month where the key was absent.
C4_BackfillNeverOverwrites ==
  [][(pc = "retrieve_memory" /\ tool_input # None) =>
       /\ tool_input' # None
       /\ \A k \in DOMAIN tool_input[1].arguments :
            /\ k \in DOMAIN tool_input'[1].arguments
            /\ tool_input'[1].arguments[k] = tool_input[1].arguments[k]
       /\ (DOMAIN tool_input'[1].arguments) \ (DOMAIN tool_input[1].arguments)
            \subseteq BackfillKeys]_vars

\* backfill has filled the month from an entry whose category differs from
\* the category the intent supplied, and the supplied category is kept
C4_Witness ==
  /\ pc = "execute_tool"
  /\ tool_input # None
  /\ "category" \in DOMAIN tool_input[1].arguments
  /\ tool_input[1].arguments.category = "Rent"
  /\ "month" \in DOMAIN tool_input[1].arguments
  /\ BestMatch(memory.items, query) # None
  /\ "category" \in DOMAIN BestMatch(memory.items, query)[1]
  /\ BestMatch(memory.items, query)[1].category = "Food"

\* no entry of the memory is more than 0.4 similar to the current query
NoSimilarEntry ==
  \A i \in 1..Len(memory.items) :
     LET r == Ratio(lower(query), lower(memory.items[i].query))
     IN ~(10 * r[1] > 4 * r[2])

\* C5: when no memory entry is more than 0.4 similar to the query (the empty
\* memory included) backfill leaves the intent as it is, runs on to the tool
\* executor and writes no result.
C5_NoBackfillBelowThreshold ==
  [][(pc = "retrieve_memory" /\ NoSimilarEntry) =>
       /\ tool_input' = tool_input
       /\ pc' = "execute_tool"
       /\ result' = result]_vars

\* backfill has run on a non-empty memory without a similar entry and the
\* intent still lacks a key
C5_Witness ==
  /\ pc = "execute_tool"
  /\ tool_input # None
  /\ memory.items # <<>>
  /\ NoSimilarEntry
  /\ ~(BackfillKeys \subseteq DOMAIN tool_input[1].arguments)

\* C6: every step of a session leaves the old memory as a prefix of the new
\* one: entries are never removed, reordered or changed, only added at the end.
C6_MemoryOnlyGrows == [][IsPrefix(memory.items, memory'.items)]_vars

\* the second query of a session has added entries after those of the first
C6_Witness ==
  /\ pc = "END"
  /\ queriesDone = 2
  /\ memAtEntry # <<>>
  /\ Len(memory.items) > Len(memAtEntry)

\* C7: at the end of the single-step path, a tool that returned its answer
\* has added exactly one entry (the original query, the tool invoked); with
\* no tool invoked or a raising invocation the memory is unchanged.
C7_SingleStepMemory ==
  (pc = "END" /\ path = SinglePath) =>
     IF tool_calls # <<>> /\ tool_calls[1].outcome = "text"
     THEN /\ Len(memory.items) = Len(memAtEntry) + 1
          /\ IsPrefix(memAtEntry, memory.items)
          /\ memory.items[Len(memory.items)].query = query
          /\ memory.items[Len(memory.items)].tool_name = tool_calls[1].tool
          /\ invoked_tool = Some(tool_calls[1].tool)
     ELSE (tool_calls = <<>> \/ tool_calls[1].outcome = "raise") =>
             memory.items = memAtEntry

\* a successful single-step query on a memory that already had an entry
C7_Witness ==
  /\ pc = "END"
  /\ path = SinglePath
  /\ tool_calls # <<>>
  /\ tool_calls[1].outcome = "text"
  /\ memAtEntry # <<>>
  /\ Len(memory.items) = Len(memAtEntry) + 1

\* C8: after the multi-step path the memory is the memory at entry followed
\* by one entry per successful step result, in plan order.
C8_MultiStepMemory ==
  (pc = "END" /\ path = MultiPath) =>
    LET ok == SelectSeq(step_results[1], IsSuccess)
        old == Len(memAtEntry)
    IN /\ IsPrefix(memAtEntry, memory.items)
       /\ Len(memory.items) = old + Len(ok)
       /\ \A j \in 1..Len(ok) :
            /\ memory.items[old + j].answer = ok[j].result
            /\ memory.items[old + j].tool_name = OperationToolName[ok[j].operation]
            /\ memory.items[old + j].tool_args = ok[j].arguments

\* three steps, two of them successful and one failed: two new entries
C8_Witness ==
  /\ pc = "END"
  /\ path = MultiPath
  /\ Len(step_results[1]) = 3
  /\ Len(SelectSeq(step_results[1], IsSuccess)) = 2
  /\ Len(memory.items) = Len(memAtEntry) + 2

\* C9: a step result has success = true iff the operation executor signalled
\* no failure, neither by raising nor by returning its error-marked text.
C9_SuccessIffNoFailureSignal ==
  \A i \in 1..Len(cx_results) :
     StepInvokesTool(PlanSteps[i]) =>
        (cx_results[i].success <=>
           StepOutcome(PlanSteps[i].operation[1], PlanSteps[i].arguments[1],
                       table, today) = "text")

\* C10: for a plan of two or more steps the synthesizer is not invoked while
\* the steps run, and is invoked exactly once by the end, with one labelled
\* block per collected step result, in order, failures included.
C10_SynthesisOnceOverAllResults ==
  (IsPrefix(MultiPath, path) /\ Len(PlanSteps) >= 2) =>
     /\ pc \in {"chain_loop", "chain_memory", "chain_final"} => synth_calls = <<>>
     /\ pc = "END" =>
          /\ Len(synth_calls) = 1
          /\ LET blocks == synth_calls[1].blocks
                 rs == step_results[1]
             IN /\ Len(rs) = cx_i
                /\ Len(blocks) = Len(rs)
                /\ \A i \in 1..Len(rs) :
                     /\ blocks[i].position = i
                     /\ blocks[i].failed = ~rs[i].success
                     /\ blocks[i].text = rs[i].result

\* the synthesizer has been given a failed and a successful step result
C10_Witness ==
  /\ pc = "END"
  /\ Len(synth_calls) = 1
  /\ \E i, j \in 1..Len(synth_calls[1].blocks) :
        synth_calls[1].blocks[i].failed /\ ~synth_calls[1].blocks[j].failed

\* the multi-step path has finished for the plan of the current query
MultiDone == pc = "END" /\ path = MultiPath /\ execution_plan # None

\* the concatenation of a sequence of texts
RECURSIVE Concat(_)
Concat(ts) == IF ts = <<>> THEN <<>> ELSE Head(ts) \o Concat(Tail(ts))

\* the operation names of the catalog
CatalogNames ==
  {"top_n_expenses", "list_month_expenses", "sum_category_expenses",
   "date_range_expense", "summarize_memory", "compare_months",
   "compare_category", "average_category_expense", "category_summary"}

\* the operation a plan step names is not one of the catalog
UnknownOperation(step) ==
  \/ "operation" \notin DOMAIN step
  \/ step.operation = None
  \/ step.operation[1] \notin CatalogNames

\* the description of a plan step carries the "required" marker
MarkedRequired(step) ==
  /\ "description" \in DOMAIN step
  /\ step.description # None
  /\ Contains(RequiredMarker, lower(step.description[1]))

\* C11: a plan of exactly one step run on the multi-step path is answered
\* without the synthesizer, and the final answer is that step's result text
\* as it is, whether the step succeeded or failed.
C11_OneStepResultUnchanged ==
  (MultiDone /\ Len(PlanSteps) = 1) =>
     /\ synth_calls = <<>>
     /\ step_results # None
     /\ Len(step_results[1]) = 1
     /\ result = Some(step_results[1][1].result)

\* C12: when the synthesis call fails the final answer is the failure notice
\* followed by every collected step result, labelled and in order; the step
\* results are returned and the memory holds an entry per successful step.
C12_SynthesisFailureKeepsResults ==
  (pc = "END" /\ synth_calls # <<>> /\ synth_calls[1].outcome = "llm_error") =>
    LET rs == step_results[1]
        text == result[1]
        Labelled(i) ==
          <<"Step", DigitChar(i)>>
            \o (IF rs[i].success THEN <<>> ELSE <<"FAILED">>)
            \o Fmt(rs[i].step_description) \o rs[i].result
    IN /\ step_results = Some(cx_results)
       /\ Len(rs) = cx_i
       /\ Len(text) >= 4
       /\ text[1] = ErrorMarker
       /\ text[2] = "Failed to synthesize results:"
       /\ SubSeq(text, 5, Len(text)) = Concat([i \in 1..Len(rs) |-> Labelled(i)])
       /\ IsPrefix(memAtEntry, memory.items)
       /\ Len(memory.items) = Len(memAtEntry) + Len(SelectSeq(rs, IsSuccess))

\* a failed synthesis over three step results, successful and failed ones
C12_Witness ==
  /\ pc = "END"
  /\ synth_calls # <<>>
  /\ synth_calls[1].outcome = "llm_error"
  /\ Len(step_results[1]) = 3
  /\ \E i, j \in 1..3 : step_results[1][i].success /\ ~step_results[1][j].success
  /\ Len(memory.items) > Len(memAtEntry)

\* the loop of the current plan stopped at a failed step marked required
HaltedOnRequired ==
  /\ cx_i >= 1
  /\ Len(cx_results) = cx_i
  /\ ~cx_results[cx_i].success
  /\ MarkedRequired(PlanSteps[cx_i])

\* C13: when a required step fails and halts a plan of several steps, the
\* step results collected so far, the failed one included, are all given to
\* the synthesizer and returned in step_results, and the successful steps
\* before the halt have their memory entries, in order.
C13_HaltKeepsCollectedResults ==
  (MultiDone /\ Len(PlanSteps) >= 2 /\ HaltedOnRequired) =>
    LET rs == step_results[1]
        ok == SelectSeq(rs, IsSuccess)
    IN /\ step_results = Some(cx_results)
       /\ ~rs[Len(rs)].success
       /\ Len(synth_calls) = 1
       /\ Len(synth_calls[1].blocks) = Len(rs)
       /\ \A i \in 1..Len(rs) : synth_calls[1].blocks[i].text = rs[i].result
       /\ result # None
       /\ Len(memory.items) = Len(memAtEntry) + Len(ok)
       /\ \A j \in 1..Len(ok) :
            memory.items[Len(memAtEntry) + j].answer = ok[j].result

\* a plan of three steps halted at its required second step, after a
\* successful first step whose entry is in the memory
C13_Witness ==
  /\ MultiDone
  /\ Len(PlanSteps) = 3
  /\ HaltedOnRequired
  /\ cx_i = 2
  /\ cx_results[1].success
  /\ Len(memory.items) = Len(memAtEntry) + 1
  /\ memory.items[Len(memory.items)].answer = cx_results[1].result

\* C14: a plan step naming an operation outside the catalog gets a step
\* result with success = false and an explanatory text, no operation is
\* invoked for it, it adds no memory entry, and unless it is marked
\* required the steps after it are still executed.
C14_UnknownOperationStep ==
  (IsPrefix(MultiPath, path) /\ execution_plan # None) =>
    LET known == {i \in 1..cx_i : ~UnknownOperation(PlanSteps[i])}
    IN /\ Len(cx_results) = cx_i
       /\ \A i \in 1..cx_i :
            UnknownOperation(PlanSteps[i]) =>
              /\ ~cx_results[i].success
              /\ cx_results[i].result[1] = ErrorMarker
              /\ cx_results[i].result[2] = "Unknown operation:"
              /\ (~MarkedRequired(PlanSteps[i]) /\ i < Len(PlanSteps)) =>
                    (cx_i > i \/ pc = "chain_loop")
       /\ Len(tool_calls) = Cardinality(known)
       /\ Len(memory.items) - Len(memAtEntry) <= Cardinality(known)
       /\ pc = "END" =>
            Len(memory.items) - Len(memAtEntry)
              = Len(SelectSeq(cx_results, IsSuccess))

\* an unknown first step followed by a step that ran and succeeded: one
\* operation invoked, one memory entry
C14_Witness ==
  /\ MultiDone
  /\ Len(PlanSteps) >= 2
  /\ UnknownOperation(PlanSteps[1])
  /\ cx_i >= 2
  /\ cx_results[2].success
  /\ Len(tool_calls) = cx_i - 1
  /\ Len(memory.items) = Len(memAtEntry) + 1

\* the intent extractor's answer for the current query names no operation of
\* the catalog: the call failed, the text did not parse, the object has no
\* operation, or the operation is unknown
InvalidIntent ==
  /\ intent_resp # None
  /\ \/ ~intent_resp[1].ok
     \/ /\ intent_resp[1].ok
        /\ \/ "operation" \notin DOMAIN intent_resp[1].parsed
           \/ /\ "operation" \in DOMAIN intent_resp[1].parsed
              /\ intent_resp[1].parsed.operation \notin CatalogNames

\* C15: on the single-step path, when the intent extractor names no
\* operation of the catalog, no operation is executed, the memory stays as it
\* was, nothing raises and the answer is a text carrying the error marker.
C15_InvalidIntentEndsWithErrorText ==
  (IsPrefix(<<"planner", "rewrite_query">>, path) /\ InvalidIntent) =>
     /\ pc # "raised"
     /\ IsPrefix(path, SinglePath)
     /\ tool_calls = <<>>
     /\ memory.items = memAtEntry
     /\ result # None
     /\ result[1] # <<>>
     /\ result[1][1] = ErrorMarker
     /\ pc = "END" => path = SinglePath

\* the extractor named an unknown operation for the second query of a
\* session whose memory already had an entry
C15_Witness ==
  /\ pc = "END"
  /\ path = SinglePath
  /\ intent_resp # None
  /\ intent_resp[1].ok
  /\ "operation" \in DOMAIN intent_resp[1].parsed
  /\ intent_resp[1].parsed.operation = "bogus"
  /\ memAtEntry # <<>>
  /\ memory.items = memAtEntry

\* C16: the planner never raises; a response without steps gives a
\* plan-failure saying that no execution steps were generated, a failed call
\* or unparseable response gives a plan-failure whose text includes the
\* failure reason, both with a null plan and is_multi_step = false; a
\* one-step response with is_multi_step = false is accepted as the plan.
C16_PlannerOutcomes ==
  (path = <<"planner">> /\ planner_resp # None) =>
    LET r == planner_resp[1]
    IN /\ pc \in {"rewrite_query", "chain_executor"}
       /\ ~r.ok =>
            /\ execution_plan = None
            /\ is_multi_step = FALSE
            /\ result # None
            /\ result[1][1] = ErrorMarker
            /\ \E i \in 1..Len(result[1]) : result[1][i] = r.reason
       /\ (r.ok /\ Len(r.plan.steps) = 0) =>
            /\ execution_plan = None
            /\ is_multi_step = FALSE
            /\ result = Some(<<ErrorMarker, "No execution steps generated.">>)
       /\ (r.ok /\ Len(r.plan.steps) = 1 /\ ~r.plan.is_multi_step) =>
            /\ execution_plan # None
            /\ execution_plan[1].steps = r.plan.steps
            /\ is_multi_step = FALSE
            /\ result = None

\* a one-step response with is_multi_step = false has been accepted
C16_Witness ==
  /\ path = <<"planner">>
  /\ planner_resp # None
  /\ planner_resp[1].ok
  /\ Len(planner_resp[1].plan.steps) = 1
  /\ ~planner_resp[1].plan.is_multi_step
  /\ execution_plan # None
  /\ pc = "rewrite_query"

SingleNodes == {"rewrite_query", "retrieve_memory", "execute_tool"}
MultiNodes == {"chain_executor", "chain_loop", "chain_memory", "chain_final"}

\* the stages visited for the current query are PLAN, then one path
StagesInOrder ==
  /\ pc # "raised"
  /\ pc = "idle" => path = <<>>
  /\ pc = "planner" => path = <<>>
  /\ pc \in SingleNodes => (path # <<>> /\ IsPrefix(path, SinglePath))
  /\ pc \in MultiNodes => IsPrefix(path, MultiPath)
  /\ pc = "END" => path \in {SinglePath, MultiPath}
  /\ IsPrefix(MultiPath, path) =>
        /\ execution_plan # None
        /\ cx_i <= Len(PlanSteps)
        /\ Len(cx_results) = cx_i
        /\ Len(tool_calls) <= cx_i
  /\ ~IsPrefix(MultiPath, path) => (cx_i = 0 /\ Len(tool_calls) <= 1)

\* a step never goes back to PLAN within a query, never changes path, and
\* never runs a plan step again
StagesForward ==
  /\ pc' = "planner" => (pc \in {"idle", "END"} /\ queriesDone' = queriesDone + 1)
  /\ pc \in SingleNodes => pc' \in SingleNodes \cup {"END"}
  /\ pc \in MultiNodes => pc' \in MultiNodes \cup {"END"}
  /\ pc \in SingleNodes \cup MultiNodes =>
        /\ IsPrefix(path, path')
        /\ cx_i' \in {cx_i, cx_i + 1}
        /\ IsPrefix(cx_results, cx_results')
        /\ IsPrefix(tool_calls, tool_calls')

\* C17: for every query the stages are visited at most once in the order
\* PLAN, then one of SINGLE_STEP and MULTI_STEP, then DONE; the run never
\* returns to PLAN, never changes path, executes each plan step at most
\* once, and every query that entered PLAN eventually reaches DONE.
C17_SinglePassToDone ==
  /\ []StagesInOrder
  /\ [][StagesForward]_vars
  /\ (pc = "planner") ~> (pc = "END")

\* a query is done after running each step of a three-step plan once
C17_Witness ==
  /\ pc = "END"
  /\ queriesDone = 1
  /\ path = MultiPath
  /\ Len(PlanSteps) = 3
  /\ cx_i = 3
  /\ Len(tool_calls) = 3

\* tok is a year-month token YYYY-MM with a month of the calendar
IsYearMonth(tok) ==
  /\ Len(tok) = 7
  /\ \A i \in {1, 2, 3, 4, 6, 7} : IsDigit(tok[i])
  /\ tok[5] = "-"
  /\ ToInt(SubSeq(tok, 6, 7)) \in 1..12

\* the number of the month a token names, counted from year 0
MonthIndex(tok) == 12 * ToInt(SubSeq(tok, 1, 4)) + ToInt(SubSeq(tok, 6, 7))

\* C18: on every day and for every N >= 1, "last N months" resolves to a
\* list of exactly N year-month tokens, each the calendar month after the one
\* before it, the last being the month before the current month; on a day
\* of 2025-07 "last 3 months" is [2025-04, 2025-05, 2025-06].
C18_LastNMonths ==
  t_out # None =>
    /\ \A n \in 1..MaxN :
         t_value = LastNMonths(n) =>
           LET items == t_out[1].items
           IN /\ t_out[1].isList
              /\ Len(items) = n
              /\ \A i \in 1..n : IsYearMonth(items[i])
              /\ \A i \in 1..(n - 1) :
                   MonthIndex(items[i + 1]) = MonthIndex(items[i]) + 1
              /\ MonthIndex(items[n]) = 12 * t_day[1] + t_day[2] - 1
    /\ (t_day = <<2025, 7>> /\ t_value = LastNMonths(3)) =>
         t_out[1].items = << <<"2", "0", "2", "5", "-", "0", "4">>,
                             <<"2", "0", "2", "5", "-", "0", "5">>,
                             <<"2", "0", "2", "5", "-", "0", "6">> >>

\* thirteen months back from January 2024: the list starts in December 2022
C18_Witness ==
  /\ t_out # None
  /\ t_day = <<2024, 1>>
  /\ t_value = LastNMonths(13)
  /\ Len(t_out[1].items) = 13
  /\ t_out[1].items[1] = <<"2", "0", "2", "2", "-", "1", "2">>

\* the value has none of the forms the resolver recognises
Unrecognised(value) ==
  LET v == strip(lower(value))
  IN /\ v \notin {StrThisMonth, StrLastMonth, StrLastQuarter, StrThisYear}
     /\ MatchLastN(v) = <<>>

\* C19: a value that is a YYYY-MM token, or that has no recognised form, is
\* returned as the very same string.
C19_UnresolvedReturnedUnchanged ==
  (t_out # None /\ (IsYearMonth(t_value) \/ Unrecognised(t_value))) =>
     t_out[1] = TStr(t_value)

\* C20: whenever the resolver returns a year-month token, or a list holding
\* such tokens, resolving each returned token again gives that token.
C20_ResolveIdempotentOnTokens ==
  t_again # None =>
    \A i \in 1..Len(t_out[1].items) :
       IsYearMonth(t_out[1].items[i]) => t_again[1][i] = TStr(t_out[1].items[i])

\* every token of a resolved "this year" in December has been resolved again
C20_Witness ==
  /\ t_again # None
  /\ t_value = StrThisYear
  /\ t_day[2] = 12
  /\ Len(t_again[1]) = 12
  /\ \A i \in 1..12 : IsYearMonth(t_out[1].items[i])

\* the score of the i-th known category against the normalised input
MatchScore(i) == Ratio(lower(m_cats[i]), strip(lower(m_input)))

\* the categories that reach the 0.6 threshold
MatchEligible == {i \in 1..Len(m_cats) : AtLeastCutoff(MatchScore(i))}

\* C21: the matcher compares case-insensitively and returns the known
\* category of highest similarity if that similarity is at least 0.6, the
\* first-encountered one among equally scored candidates; it returns none
\* when no candidate reaches 0.6 or there is no known category.
C21_BestCategoryFirstOnTies ==
  m_out # None =>
    IF MatchEligible = {} THEN m_out[1] = None
    ELSE LET best == {i \in MatchEligible :
                        \A j \in MatchEligible : ~FracGreater(MatchScore(j), MatchScore(i))}
         IN m_out[1] = Some(m_cats[Min(best)])

\* every entry of the memory was recorded for a query of session s
OwnEntries(s, mem) ==
  \A i \in 1..Len(mem.items) : IsPrefix(SessionQuery(s), mem.items[i].query)

\* the plan and the step results are those of session s
OwnPlan(s, plan, results) ==
  /\ plan # None => \A i \in 1..Len(plan[1].steps) : plan[1].steps[i] = SessionStep(s)
  /\ \A i \in 1..Len(results) :
       results[i].step_description = SessionStep(s).description

\* the state of session s, running or suspended
SessionOf(s) == IF s = cur THEN Suspended ELSE other[1]

SessionIsolated(s) ==
  LET st == SessionOf(s)
  IN /\ OwnEntries(s, st.memory)
     /\ OwnPlan(s, st.execution_plan, st.cx_results)
     /\ st.step_results # None => OwnPlan(s, st.execution_plan, st.step_results[1])
     /\ st.query \in {<<>>, SessionQuery(s)}

\* C22: with two sessions processing queries concurrently, each with its own
\* memory, in every interleaving each session's memory holds only entries of
\* its own queries, its plan and step results are its own, and a node run
\* by one session leaves the other session's state untouched.
C22_SessionsIsolated ==
  /\ [](other # None => SessionIsolated(1) /\ SessionIsolated(2))
  /\ [][cur' = cur => other' = other]_vars

\* both sessions have recorded entries, one of them while the other was
\* suspended inside its chain executor
C22_Witness ==
  /\ other # None
  /\ pc = "END"
  /\ memory.items # <<>>
  /\ other[1].pc = "chain_final"
  /\ other[1].memory.items # <<>>
  /\ Len(other[1].cx_results) >= 2

\* the planner's outcome selects the multi-step path
PlanIsMulti == execution_plan # None /\ is_multi_step

OnMultiPath == pc \in MultiNodes \/ (pc = "END" /\ path = MultiPath)
OnSinglePath == pc \in SingleNodes \/ (pc = "END" /\ path = SinglePath)

\* C23: after the planner the chain executor runs if and only if the plan is
\* non-null and is_multi_step is true; otherwise (plan-failure, or a plan
\* with is_multi_step false) the single-step path runs; exactly one of the
\* two paths runs per query.
C23_RoutedByPlanAndFlag ==
  path # <<>> =>
    /\ PlanIsMulti <=> OnMultiPath
    /\ ~PlanIsMulti <=> OnSinglePath
    /\ ~(OnMultiPath /\ OnSinglePath)
    /\ ~(\E i, j \in 1..Len(path) : path[i] = "chain_executor" /\ path[j] \in SingleNodes)
    /\ (planner_resp = None \/ ~planner_resp[1].ok) => OnSinglePath
    /\ (planner_resp # None /\ planner_resp[1].ok) =>
         (OnMultiPath <=> (planner_resp[1].plan.steps # <<>>
                           /\ planner_resp[1].plan.is_multi_step))

\* a query whose plan has one step and is_multi_step false ran the
\* single-step path to its end
C23_Witness ==
  /\ pc = "END"
  /\ path = SinglePath
  /\ execution_plan # None
  /\ ~is_multi_step
  /\ Len(PlanSteps) = 1

\* Memory Backfill triggers: the node runs with an intent that lacks the
\* category or the month, on a memory that is a list
BackfillTriggers ==
  /\ pc = "retrieve_memory"
  /\ tool_input # None
  /\ ~(BackfillKeys \subseteq DOMAIN tool_input[1].arguments)
  /\ MemoryGet(memory) # None

\* similarity of the current query and the i-th memory entry
PastSim(i) == Ratio(lower(query), lower(memory.items[i].query))

\* the similarity of every memory entry
PastSims == [i \in 1..Len(memory.items) |-> PastSim(i)]

\* the entries Memory Backfill may take values from
PastEligible ==
  LET sims == PastSims
  IN {i \in 1..Len(memory.items) :
        /\ AboveThreshold(sims[i])
        /\ memory.items[i].tool_name # "summarize_memory_tool"}

\* the eligible entries of highest similarity
PastBest ==
  LET sims == PastSims
      eligible == {i \in 1..Len(memory.items) :
                     /\ AboveThreshold(sims[i])
                     /\ memory.items[i].tool_name # "summarize_memory_tool"}
  IN {i \in eligible : \A j \in eligible : ~FracGreater(sims[j], sims[i])}

Max(S) == CHOOSE x \in S : \A y \in S : y <= x

\* the arguments after a backfill from memory entry i
FilledFrom(i) ==
  LET args == tool_input[1].arguments
      src == memory.items[i].tool_args
  IN /\ \A k \in DOMAIN args :
          k \in DOMAIN tool_input'[1].arguments /\ tool_input'[1].arguments[k] = args[k]
     /\ \A k \in BackfillKeys \ DOMAIN args :
          IF k \in DOMAIN src
          THEN k \in DOMAIN tool_input'[1].arguments
               /\ tool_input'[1].arguments[k] = src[k]
          ELSE k \notin DOMAIN tool_input'[1].arguments

\* C24: when Memory Backfill triggers, the source entry is the entry of
\* highest similarity to the query among the entries above 0.4 that the
\* memory-summarization operation did not produce; of several entries of
\* that highest similarity the most recent one is the source; with no such
\* entry nothing is filled.
C24_BackfillFromBestRecent ==
  [][BackfillTriggers =>
       IF PastEligible = {}
       THEN tool_input' = tool_input
       ELSE FilledFrom(Max(PastBest))]_vars

\* a backfill took the category of the more recent of two entries that match
\* the query equally well and carry different categories
C24_Witness ==
  /\ pc = "execute_tool"
  /\ Len(memory.items) = 2
  /\ memory.items[1].query = memory.items[2].query
  /\ memory.items[1].tool_name = "sum_category_expenses_tool"
  /\ memory.items[2].tool_name = "sum_category_expenses_tool"
  /\ memory.items[1].tool_args # memory.items[2].tool_args
  /\ tool_input # None
  /\ intent_resp # None /\ intent_resp[1].ok
  /\ "category" \notin DOMAIN intent_resp[1].parsed
  /\ "category" \in DOMAIN tool_input[1].arguments
  /\ tool_input[1].arguments.category = memory.items[2].tool_args.category

\* the names of the time-valued arguments of the catalog's operations
TimeArgNames == {"month", "months", "month1", "month2"}

\* a time-valued argument after the Time Resolver: a list has every element
\* resolved and the resolver's lists spliced in, in order
ThroughResolver(v) ==
  IF v.isList
  THEN TList(Concat([i \in 1..Len(v.items) |->
                       resolve_time_period(v.items[i], today).items]))
  ELSE resolve_time_period(v.items[1], today)

\* C25: the Step Executor invokes the operation with a copy of the step's
\* arguments in which every time-valued argument (month, months, month1,
\* month2) has gone through the Time Resolver, lists resolved element by
\* element and flattened in order; the plan's own arguments stay unchanged.
C25_StepTimeArgsResolved ==
  [][(pc = "chain_loop" /\ StepInvokesTool(PlanSteps[cx_i + 1])) =>
       LET arguments == PlanSteps[cx_i + 1].arguments[1]
           call == tool_calls'[Len(tool_calls')]
       IN /\ Len(tool_calls') = Len(tool_calls) + 1
          /\ execution_plan' = execution_plan
          /\ \A k \in DOMAIN arguments :
               /\ k \in DOMAIN call.args
               /\ call.args[k] = IF k \in TimeArgNames
                                 THEN ThroughResolver(arguments[k])
                                 ELSE arguments[k]]_vars

\* the entries the current query has appended to the memory
NewEntries == SubSeq(memory.items, Len(memAtEntry) + 1, Len(memory.items))

\* the invocations of the current query that returned
ReturnedCalls == SelectSeq(tool_calls, LAMBDA c : c.outcome # "raise")

DatasetKeys == {"df", "table_name", "memory"}

\* C26: every memory entry appended by either path stores the arguments the
\* operation was invoked with, time-valued arguments as the Time Resolver
\* returned them, without the dataset reference (df, table name) and without
\* the memory.
C26_EntryStoresInvokedArgs ==
  (pc \in {"chain_final", "END"} /\ memory.kind = "list") =>
     /\ Len(NewEntries) = Len(ReturnedCalls)
     /\ \A i \in 1..Len(NewEntries) :
          /\ DOMAIN NewEntries[i].tool_args \cap DatasetKeys = {}
          /\ NewEntries[i].tool_args = Without(ReturnedCalls[i].args, DatasetKeys)

\* the intent extracted on the single-step path names the operation and the
\* arguments of the one planned step
IntentIsPlannedStep ==
  /\ execution_plan # None
  /\ ~is_multi_step
  /\ Len(PlanSteps) = 1
  /\ StepInvokesTool(PlanSteps[1])
  /\ intent_resp # None
  /\ intent_resp[1].ok
  /\ "operation" \in DOMAIN intent_resp[1].parsed
  /\ intent_resp[1].parsed.operation = PlanSteps[1].operation[1]
  /\ Without(intent_resp[1].parsed, {"operation"}) = PlanSteps[1].arguments[1]

\* C27: for a plan of a single step with is_multi_step false, the
\* single-step path with an intent equal to the planned step gives the final
\* answer and records the memory entry (query, operation name, arguments)
\* that the Step Executor and the chain executor give for that step.
C27_SinglePathEqualsPlannedStep ==
  (pc = "END" /\ path = SinglePath /\ IntentIsPlannedStep) =>
     LET r == execute_single_step(PlanSteps[1], table, today)
         entries == StepEntries(query, <<r>>)
     IN /\ result = Some(IF r.success THEN r.result
                         ELSE <<ErrorMarker, "Step execution failed.">>)
        /\ Len(NewEntries) = Len(entries)
        /\ \A i \in 1..Len(entries) :
             /\ NewEntries[i].query = entries[i].query
             /\ NewEntries[i].tool_name = entries[i].tool_name
             /\ NewEntries[i].tool_args = entries[i].tool_args

\* the keys of the state dict other than tool_input, path aside
StateDictKept ==
  /\ query' = query
  /\ memory' = memory
  /\ result' = result
  /\ invoked_tool' = invoked_tool
  /\ is_multi_step' = is_multi_step
  /\ execution_plan' = execution_plan
  /\ step_results' = step_results
  /\ table' = table

\* C28: Memory Backfill changes nothing but the category and month keys of
\* the intent's arguments: the tool name, every other argument, the query
\* and the memory stay as they are; with category and month both present,
\* or without an intent, the state is returned unchanged whatever the memory
\* contains.
C28_BackfillFrame ==
  [][pc = "retrieve_memory" =>
       /\ StateDictKept
       /\ IF tool_input = None \/ BackfillKeys \subseteq DOMAIN tool_input[1].arguments
          THEN tool_input' = tool_input /\ pc' = "execute_tool"
          ELSE /\ tool_input' # None
               /\ tool_input'[1].tool_name = tool_input[1].tool_name
               /\ DOMAIN tool_input'[1] = DOMAIN tool_input[1]
               /\ DOMAIN tool_input'[1].arguments \ BackfillKeys
                    = DOMAIN tool_input[1].arguments \ BackfillKeys
               /\ \A k \in DOMAIN tool_input[1].arguments \ BackfillKeys :
                    tool_input'[1].arguments[k] = tool_input[1].arguments[k]]_vars

\* a backfill filled the month from an entry that also carries a key other
\* than category and month
C28_Witness ==
  /\ pc = "execute_tool"
  /\ tool_input # None
  /\ intent_resp # None /\ intent_resp[1].ok
  /\ "month" \notin DOMAIN intent_resp[1].parsed
  /\ "month" \in DOMAIN tool_input[1].arguments
  /\ \E i \in 1..Len(memory.items) :
       /\ "n" \in DOMAIN memory.items[i].tool_args
       /\ "month" \in DOMAIN memory.items[i].tool_args
       /\ memory.items[i].tool_args.month = tool_input[1].arguments.month
  /\ "n" \notin DOMAIN tool_input[1].arguments

\* C29: every value one run of Memory Backfill fills in comes from the one
\* best-matching entry: the filled keys all carry that entry's values, and a
\* key that entry lacks stays missing even if another entry above the
\* threshold has it.
C29_FilledFromOneEntry ==
  [][BackfillTriggers =>
       LET args == tool_input[1].arguments
           after == tool_input'[1].arguments
           filled == DOMAIN after \ DOMAIN args
           best == PastBest
       IN filled # {} =>
            /\ \E i \in best :
                  \A k \in filled :
                     /\ k \in DOMAIN memory.items[i].tool_args
                     /\ after[k] = memory.items[i].tool_args[k]
            /\ \A k \in BackfillKeys \ DOMAIN args :
                  k \notin DOMAIN memory.items[Max(best)].tool_args
                     => k \notin DOMAIN after]_vars

\* the best match supplied the month and has no category; the category
\* stayed missing although another entry above the threshold has one
C29_Witness ==
  /\ pc = "execute_tool"
  /\ tool_input # None
  /\ intent_resp # None /\ intent_resp[1].ok
  /\ DOMAIN intent_resp[1].parsed \cap BackfillKeys = {}
  /\ "month" \in DOMAIN tool_input[1].arguments
  /\ "category" \notin DOMAIN tool_input[1].arguments
  /\ \E i \in PastEligible : "category" \in DOMAIN memory.items[i].tool_args

\* the texts the tool executor writes
MissingToolInput == <<ErrorMarker, "Missing tool_input">>
ExecutorTexts ==
  {MissingToolInput, <<ErrorMarker, "Tool execution failed:", "tool raised">>,
   <<ErrorMarker, "Tool execution failed:", "NoneType has no append">>}
    \cup {<<ErrorMarker, "Unknown or missing tool:", OPERATION_TO_TOOL[o]>> :
            o \in DOMAIN OPERATION_TO_TOOL}
    \cup {ToolText(DUCKDB_TOOL_REGISTRY[t], o) :
            t \in DOMAIN DUCKDB_TOOL_REGISTRY, o \in {"text", "errtext"}}

\* the extraction stage produced no intent
NoIntent == query = <<>> \/ InvalidIntent

\* C30: on the single-step path the final answer is the text the tool
\* executor wrote: an error text the planner or the intent extractor wrote
\* earlier in the query is overwritten, and whenever intent extraction fails
\* the final answer is the executor's missing-tool-input error.
C30_ExecutorTextIsFinal ==
  (pc = "END" /\ ~IsPrefix(MultiPath, path)) =>
     /\ path = SinglePath
     /\ result # None
     /\ result[1] \in ExecutorTexts
     /\ NoIntent => result[1] = MissingToolInput
     /\ result[1] = MissingToolInput <=> tool_input = None

\* the planner failed and the extractor failed, each writing its error text,
\* and the query ended with the executor's text
C30_Witness ==
  /\ pc = "END"
  /\ path = SinglePath
  /\ query # <<>>
  /\ planner_resp # None /\ ~planner_resp[1].ok
  /\ intent_resp # None /\ ~intent_resp[1].ok
  /\ result = Some(MissingToolInput)

====
